---- MODULE Spec2Model ----
(***************************************************************************)
(* SentinelOS backend: the ingest pipeline, the versioned truth store and  *)
(* the organisation state query (sentinel_backend/main.py,                 *)
(* intelligence.py, database.py).                                          *)
(*                                                                         *)
(* Strings.  A Python str is modelled as a sequence of tokens: a token is  *)
(* a word, one punctuation mark or one whitespace character.  Substring    *)
(* tests ("kw in t") are decided token by token with the table TokSub,     *)
(* regular expressions are matched over tokens.  None is the one-token     *)
(* string NoneStr, whose token is not part of any text.                    *)
(*                                                                         *)
(* Store.  Every handler opens its own sqlite3 connection                  *)
(* (database.py:6-7).  With the default isolation level the first INSERT   *)
(* of a connection opens a transaction and takes the database write lock,  *)
(* which is held until commit or until the connection is released; the     *)
(* rows written since are visible to that connection only.  A second       *)
(* connection that needs the lock while it is held gets "database is       *)
(* locked".  created_at columns are left out: no query filters or orders   *)
(* by them.                                                                *)
(***************************************************************************)
EXTENDS Naturals, Sequences, FiniteSets, TLC

\* ------------------------------------------------------------------ bounds
\* Committed RawUpdates after which no further ingest call is accepted.
MaxIngests == 3
\* Concurrent request handlers (threads of the server's pool).
NumWorkers == 2

\* org_state calls taken SELECT by SELECT in one behaviour.
MaxReads == 1

\* ----------------------------------------------------------------- strings
NoneStr == <<"<None>">>

Truthy(s) == s # NoneStr /\ s # <<>>

Whitespace == {" ", "\n"}

RECURSIVE LStrip(_)
LStrip(s) ==
    IF s = <<>> THEN <<>>
    ELSE IF Head(s) \in Whitespace THEN LStrip(Tail(s)) ELSE s

RECURSIVE RStrip(_)
RStrip(s) ==
    IF s = <<>> THEN <<>>
    ELSE IF s[Len(s)] \in Whitespace THEN RStrip(SubSeq(s, 1, Len(s) - 1)) ELSE s

\* str.strip()
Strip(s) == RStrip(LStrip(s))

\* str.lower() of one token
LowerTok(tok) ==
    CASE tok = "Launch" -> "launch"
      [] tok = "Friday" -> "friday"
      [] tok = "Monday" -> "monday"
      [] tok = "Priority" -> "priority"
      [] tok = "P0" -> "p0"
      [] tok = "P1" -> "p1"
      [] tok = "Blocked" -> "blocked"
      [] tok = "Sana" -> "sana"
      [] tok = "Ali" -> "ali"
      [] tok = "Khan" -> "khan"
      [] OTHER -> tok

low(s) == [i \in 1..Len(s) |-> LowerTok(s[i])]

\* "friday".capitalize()
CapitalizeTok(tok) ==
    CASE tok = "monday" -> "Monday"
      [] tok = "tuesday" -> "Tuesday"
      [] tok = "wednesday" -> "Wednesday"
      [] tok = "thursday" -> "Thursday"
      [] tok = "friday" -> "Friday"
      [] tok = "saturday" -> "Saturday"
      [] tok = "sunday" -> "Sunday"
      [] tok = "handle" -> "Handle"
      [] tok = "prepare" -> "Prepare"
      [] tok = "coordinate" -> "Coordinate"
      [] tok = "own" -> "Own"
      [] tok = "lead" -> "Lead"
      [] OTHER -> tok

\* "p0".upper()
UpperTok(tok) ==
    CASE tok = "p0" -> "P0"
      [] tok = "p1" -> "P1"
      [] tok = "p2" -> "P2"
      [] tok = "high" -> "HIGH"
      [] tok = "medium" -> "MEDIUM"
      [] tok = "low" -> "LOW"
      [] OTHER -> tok

\* Pairs <<token, word>> where the word is a proper substring of the token.
ProperSubstrings ==
    { <<"deliverable", "deliver">>, <<"changed", "change">>,
      <<"unblocked", "blocked">>, <<"relaunch", "launch">>,
      <<"standby", "by">>, <<"shipment", "pm">> }

TokSub(tok, w) == tok = w \/ <<tok, w>> \in ProperSubstrings

\* kw in t, for a keyword given as its tokens
Contains(t, kw) ==
    \E i \in 1..Len(t) :
        /\ i + Len(kw) - 1 <= Len(t)
        /\ \A j \in 1..Len(kw) :
              IF j = 1 \/ j = Len(kw) THEN TokSub(t[i + j - 1], kw[j])
              ELSE t[i + j - 1] = kw[j]

ContainsAny(t, kws) == \E kw \in kws : Contains(t, kw)

DAYS == <<"monday", "tuesday", "wednesday", "thursday", "friday", "saturday", "sunday">>

DaySet == {DAYS[i] : i \in 1..Len(DAYS)}

\* re.search(r"\b(monday|...|sunday)\b", text_low): the leftmost day word
find_day(t) ==
    LET hits == {i \in 1..Len(t) : t[i] \in DaySet}
    IN IF hits = {} THEN NoneStr
       ELSE <<CapitalizeTok(t[CHOOSE i \in hits : \A k \in hits : i <= k])>>

\* ---------------------------------------------------------- truth extraction
\* First index >= i of t that holds no whitespace (Len(t) + 1 when none): \s*
RECURSIVE SkipWs(_, _)
SkipWs(t, i) ==
    IF i <= Len(t) /\ t[i] \in Whitespace THEN SkipWs(t, i + 1) ELSE i

\* The alternative of (p0|p1|p2|high|medium|low) that a token starts with
PriorityLevel(tok) ==
    CASE tok \in {"p0", "p1", "p2", "high", "medium", "low"} -> tok
      [] tok = "higher" -> "high"
      [] tok = "lowest" -> "low"
      [] OTHER -> ""

\* Index of the level token when priority\s*[:\-]?\s*(p0|...) matches at i, else 0
PriorityMatchAt(t, i) ==
    IF ~(i <= Len(t) /\ TokSub(t[i], "priority")) THEN 0
    ELSE LET a == SkipWs(t, i + 1)
             b == IF a <= Len(t) /\ t[a] \in {":", "-"} THEN SkipWs(t, a + 1) ELSE a
         IN IF b <= Len(t) /\ PriorityLevel(t[b]) # "" THEN b ELSE 0

extract_truths(text) ==
    LET t == low(text)
        day == find_day(t)
        launch == IF Contains(t, <<"launch">>) /\ Truthy(day)
                  THEN <<[key |-> "launch_date", value |-> day]>> ELSE <<>>
        hits == {i \in 1..Len(t) : PriorityMatchAt(t, i) # 0}
        m == IF hits = {} THEN 0
             ELSE PriorityMatchAt(t, CHOOSE i \in hits : \A k \in hits : i <= k)
        priority == IF m # 0
                    THEN <<[key |-> "priority", value |-> <<UpperTok(PriorityLevel(t[m]))>>]>>
                    ELSE <<>>
        decision == IF ContainsAny(t, {<<"we", " ", "decided">>, <<"decision">>, <<"approved">>,
                                       <<"finalized">>, <<"confirmed">>})
                    THEN <<[key |-> "decision_status", value |-> <<"UPDATED">>]>> ELSE <<>>
        scope == IF Contains(t, <<"scope">>)
                    /\ ContainsAny(t, {<<"change">>, <<"changed">>, <<"reduced">>,
                                       <<"expanded">>, <<"updated">>})
                 THEN <<[key |-> "scope", value |-> <<"CHANGED">>]>> ELSE <<>>
    IN launch \o priority \o decision \o scope

\* ----------------------------------------------------------- task extraction
Punctuation == {".", ",", ":", ";", "!", "?", "'", "/"}

\* Tokens that are not made of letters only
NonAlphaWords == {"P0", "P1", "p0", "p1", "p2", "-", "_"}

\* Tokens with a character outside [a-z0-9 \-_] (t is lowercased)
NotDepTok == Punctuation \cup {"\n"}

\* Tokens with a character outside [a-zA-Z ]
NotAlphaTok == Punctuation \cup NonAlphaWords \cup {"\n"}

\* The longest run of tokens from i on that are not in Excl
RECURSIVE Run(_, _, _)
Run(t, i, Excl) ==
    IF i <= Len(t) /\ t[i] \notin Excl THEN <<t[i]>> \o Run(t, i + 1, Excl) ELSE <<>>

\* Characters of a string
RECURSIVE Chars(_)
Chars(s) == IF s = <<>> THEN 0 ELSE Len(Head(s)) + Chars(Tail(s))

\* The longest prefix of s (whole tokens) of at most n characters
RECURSIVE TakeChars(_, _)
TakeChars(s, n) ==
    IF s = <<>> \/ Len(Head(s)) > n THEN <<>>
    ELSE <<Head(s)>> \o TakeChars(Tail(s), n - Len(Head(s)))

\* re.search(verb + " " + prep + " ([a-z0-9 \-_]+)", t).group(1), or NoneStr
DependencyAfter(t, verb, prep) ==
    LET hits == {i \in 1..Len(t) :
                    /\ i + 3 <= Len(t)
                    /\ TokSub(t[i], verb) /\ t[i + 1] = " " /\ t[i + 2] = prep
                    /\ t[i + 3] = " "
                    /\ Run(t, i + 4, NotDepTok) # <<>>}
    IN IF hits = {} THEN NoneStr
       ELSE Run(t, (CHOOSE i \in hits : \A k \in hits : i <= k) + 4, NotDepTok)

normalize_person_name(name) ==
    LET RECURSIVE DropTrail(_)
        DropTrail(s) ==
            IF s # <<>> /\ s[Len(s)] \in {".", ",", ";", ":", "-"}
            THEN DropTrail(SubSeq(s, 1, Len(s) - 1)) ELSE s
        RECURSIVE Collapse(_)
        Collapse(s) ==
            IF s = <<>> THEN <<>>
            ELSE IF Head(s) \in Whitespace
                 THEN <<" ">> \o Collapse(SubSeq(Tail(s), SkipWs(Tail(s), 1), Len(Tail(s))))
                 ELSE <<Head(s)>> \o Collapse(Tail(s))
    IN Collapse(DropTrail(Strip(name)))

\* The deadline shared by the tasks of one text
DeadlineSlot(t) ==
    IF Contains(t, <<"tomorrow">>) THEN <<"Tomorrow">>
    ELSE IF Contains(t, <<"today">>) THEN <<"Today">>
    ELSE IF Contains(t, <<"eod">>) \/ Contains(t, <<"end", " ", "of", " ", "day">>) THEN <<"EOD">>
    ELSE IF Truthy(find_day(t)) /\ (Contains(t, <<"by">>) \/ Contains(t, <<"deadline">>))
         THEN find_day(t)
    ELSE NoneStr

OwnerPhrases == { <<"assigned", "to">>, <<"owner", "is">>, <<"handled", "by">>, <<"owned", "by">> }

OwnerChars == 40

\* Group 2 of (assigned to|owner is|handled by|owned by)\s+([a-zA-Z ]{2,40}) matched
\* at token i, or NoneStr.  \s+ is greedy and gives whitespace back only when the
\* group would otherwise be shorter than two characters.
OwnerGroupAt(text, i) ==
    IF ~(/\ i + 3 <= Len(text)
         /\ \E ph \in OwnerPhrases :
               TokSub(text[i], ph[1]) /\ text[i + 1] = " " /\ text[i + 2] = ph[2]
         /\ text[i + 3] \in Whitespace)
    THEN NoneStr
    ELSE LET e == SkipWs(text, i + 3)
             G(k) == TakeChars(Run(text, k, NotAlphaTok), OwnerChars)
             cands == {k \in (i + 4)..e : Chars(G(k)) >= 2}
         IN IF cands = {} THEN NoneStr
            ELSE G(CHOOSE k \in cands : \A c \in cands : c <= k)

\* Tokens that are one capitalised word, [A-Z][a-z]+
CapWords == {"Launch", "Friday", "Monday", "Priority", "Blocked", "Sana", "Ali", "Khan"}

\* The alternative of (handle|prepare|coordinate|own|lead) that a token starts with
ActionOf(tok) ==
    CASE tok \in {"handle", "handles", "handled", "handler"} -> "handle"
      [] tok \in {"prepare", "prepares", "prepared"} -> "prepare"
      [] tok \in {"coordinate", "coordinates", "coordinated"} -> "coordinate"
      [] tok \in {"own", "owns", "owner", "owned", "owning"} -> "own"
      [] tok \in {"lead", "leads", "leading", "leader"} -> "lead"
      [] OTHER -> ""

\* Index of the action token when \s+(will|was)\s+(handle|...) matches from j, else 0
ActorRestAt(text, j) ==
    IF ~(j <= Len(text) /\ text[j] \in Whitespace) THEN 0
    ELSE LET a == SkipWs(text, j)
         IN IF ~(a + 1 <= Len(text) /\ text[a] \in {"will", "was"}
                 /\ text[a + 1] \in Whitespace)
            THEN 0
            ELSE LET b == SkipWs(text, a + 1)
                 IN IF b <= Len(text) /\ ActionOf(text[b]) # "" THEN b ELSE 0

\* The match of the named-actor pattern that starts at token i: <<name, index of
\* the action token>>, or <<NoneStr, 0>>
ActorMatchAt(text, i) ==
    IF ~(i <= Len(text) /\ text[i] \in CapWords) THEN <<NoneStr, 0>>
    ELSE IF /\ i + 2 <= Len(text) /\ text[i + 1] \in Whitespace
            /\ text[i + 2] \in CapWords /\ ActorRestAt(text, i + 3) # 0
         THEN <<SubSeq(text, i, i + 2), ActorRestAt(text, i + 3)>>
    ELSE IF ActorRestAt(text, i + 1) # 0
         THEN <<<<text[i]>>, ActorRestAt(text, i + 1)>>
    ELSE <<NoneStr, 0>>

\* re.findall of the named-actor pattern from token i on, as task drafts
RECURSIVE ActorTasks(_, _, _)
ActorTasks(text, i, deadline) ==
    IF i > Len(text) THEN <<>>
    ELSE LET m == ActorMatchAt(text, i)
         IN IF m[2] = 0 THEN ActorTasks(text, i + 1, deadline)
            ELSE <<[task |-> <<CapitalizeTok(ActionOf(text[m[2]])), " ", "task">>,
                    status |-> NoneStr,
                    deadline |-> deadline,
                    owner |-> normalize_person_name(m[1]),
                    dependency |-> NoneStr]>>
                 \o ActorTasks(text, m[2] + 1, deadline)

\* Mutant of extract_tasks: the owner phrase is attached after the named-actor
\* tasks are drafted, to the last of all tasks
extract_tasks_owner_last(text) ==
    LET t == low(text)
        deadline == DeadlineSlot(t)
        day == find_day(t)
        dep1 == DependencyAfter(t, "blocked", "by")
        dep2 == DependencyAfter(t, "waiting", "on")
        depA == IF dep1 # NoneStr THEN Strip(dep1) ELSE NoneStr
        dep == IF ~Truthy(depA) /\ dep2 # NoneStr THEN Strip(dep2) ELSE depA
        blocker ==
            IF \/ Contains(t, <<"blocked">>) \/ Contains(t, <<"waiting", " ", "on">>)
               \/ Contains(t, <<"depends", " ", "on">>)
            THEN <<[task |-> <<"Resolve blocker / dependency">>,
                    status |-> <<"blocked">>,
                    dependency |-> dep,
                    deadline |-> deadline,
                    owner |-> NoneStr]>>
            ELSE <<>>
        launch ==
            IF Contains(t, <<"launch">>)
            THEN <<[task |-> <<"Launch readiness">>,
                    status |-> IF Contains(t, <<"progress">>) THEN <<"in_progress">> ELSE NoneStr,
                    deadline |-> IF Truthy(day) THEN day ELSE deadline,
                    owner |-> IF Contains(t, <<"pm">>) \/ Contains(t, <<"project", " ", "manager">>)
                              THEN <<"Project", " ", "Manager">> ELSE NoneStr,
                    dependency |-> NoneStr]>>
            ELSE <<>>
        submission ==
            IF ContainsAny(t, {<<"submit">>, <<"submission">>, <<"deliver">>,
                               <<"deliverable">>, <<"deadline">>})
            THEN <<[task |-> <<"Prepare submission / deliverable">>,
                    status |-> NoneStr,
                    deadline |-> deadline,
                    owner |-> NoneStr,
                    dependency |-> NoneStr]>>
            ELSE <<>>
        drafted == blocker \o launch \o submission
        ohits == {i \in 1..Len(text) : OwnerGroupAt(text, i) # NoneStr}
        owner == IF ohits = {} THEN NoneStr
                 ELSE normalize_person_name(
                          OwnerGroupAt(text, CHOOSE i \in ohits : \A k \in ohits : i <= k))
        all == drafted \o ActorTasks(text, 1, deadline)
        owned ==
            IF ohits = {} THEN all
            ELSE IF all # <<>>
                 THEN [all EXCEPT ![Len(all)].owner = owner]
                 ELSE <<[task |-> <<"Owned item">>,
                         status |-> NoneStr,
                         deadline |-> deadline,
                         owner |-> owner,
                         dependency |-> NoneStr]>>
    IN owned

extract_tasks(text) ==
    LET t == low(text)
        deadline == DeadlineSlot(t)
        day == find_day(t)
        dep1 == DependencyAfter(t, "blocked", "by")
        dep2 == DependencyAfter(t, "waiting", "on")
        depA == IF dep1 # NoneStr THEN Strip(dep1) ELSE NoneStr
        dep == IF ~Truthy(depA) /\ dep2 # NoneStr THEN Strip(dep2) ELSE depA
        blocker ==
            IF \/ Contains(t, <<"blocked">>) \/ Contains(t, <<"waiting", " ", "on">>)
               \/ Contains(t, <<"depends", " ", "on">>)
            THEN <<[task |-> <<"Resolve blocker / dependency">>,
                    status |-> <<"blocked">>,
                    dependency |-> dep,
                    deadline |-> deadline,
                    owner |-> NoneStr]>>
            ELSE <<>>
        launch ==
            IF Contains(t, <<"launch">>)
            THEN <<[task |-> <<"Launch readiness">>,
                    status |-> IF Contains(t, <<"progress">>) THEN <<"in_progress">> ELSE NoneStr,
                    deadline |-> IF Truthy(day) THEN day ELSE deadline,
                    owner |-> IF Contains(t, <<"pm">>) \/ Contains(t, <<"project", " ", "manager">>)
                              THEN <<"Project", " ", "Manager">> ELSE NoneStr,
                    dependency |-> NoneStr]>>
            ELSE <<>>
        submission ==
            IF ContainsAny(t, {<<"submit">>, <<"submission">>, <<"deliver">>,
                               <<"deliverable">>, <<"deadline">>})
            THEN <<[task |-> <<"Prepare submission / deliverable">>,
                    status |-> NoneStr,
                    deadline |-> deadline,
                    owner |-> NoneStr,
                    dependency |-> NoneStr]>>
            ELSE <<>>
        drafted == blocker \o launch \o submission
        ohits == {i \in 1..Len(text) : OwnerGroupAt(text, i) # NoneStr}
        owner == IF ohits = {} THEN NoneStr
                 ELSE normalize_person_name(
                          OwnerGroupAt(text, CHOOSE i \in ohits : \A k \in ohits : i <= k))
        owned ==
            IF ohits = {} THEN drafted
            ELSE IF drafted # <<>>
                 THEN [drafted EXCEPT ![Len(drafted)].owner = owner]
                 ELSE <<[task |-> <<"Owned item">>,
                         status |-> NoneStr,
                         deadline |-> deadline,
                         owner |-> owner,
                         dependency |-> NoneStr]>>
    IN owned \o ActorTasks(text, 1, deadline)

\* -------------------------------------------------------- conflict detection
\* Mutant of detect_conflicts: the values are not compared
detect_conflicts_any(latest_truth_value, new_value) ==
    Truthy(latest_truth_value) /\ Truthy(new_value)

detect_conflicts(latest_truth_value, new_value) ==
    /\ Truthy(latest_truth_value)
    /\ Truthy(new_value)
    /\ Strip(latest_truth_value) # Strip(new_value)

\* ----------------------------------------------------------- risk computation
RiskBase == 15

RiskCap == 100

\* Mutant of compute_risk: min(score, 100) is missing
compute_risk_uncapped(text, tasks) ==
    LET t == low(text)
        r1 == \/ Contains(t, <<"blocked">>)
              \/ \E i \in 1..Len(tasks) : tasks[i].status = <<"blocked">>
        r2 == ContainsAny(t, {<<"unclear">>, <<"not", " ", "sure">>, <<"unknown">>,
                              <<"needs", " ", "confirmation">>})
        r3 == ContainsAny(t, {<<"deadline">>, <<"submission">>, <<"submit">>})
        r4 == ContainsAny(t, {<<"tomorrow">>, <<"today">>, <<"eod">>,
                              <<"end", " ", "of", " ", "day">>})
        r5 == tasks # <<>> /\ ~\E i \in 1..Len(tasks) : Truthy(tasks[i].owner)
        score == RiskBase + (IF r1 THEN 35 ELSE 0) + (IF r2 THEN 20 ELSE 0)
                          + (IF r3 THEN 15 ELSE 0) + (IF r4 THEN 20 ELSE 0)
                          + (IF r5 THEN 10 ELSE 0)
        reasons == (IF r1 THEN <<"Blocker / dependency detected">> ELSE <<>>)
                \o (IF r2 THEN <<"Ambiguity signal (unclear/unknown)">> ELSE <<>>)
                \o (IF r3 THEN <<"Deadline / submission mentioned">> ELSE <<>>)
                \o (IF r4 THEN <<"Very near-term deadline (today/tomorrow/EOD)">> ELSE <<>>)
                \o (IF r5 THEN <<"Tasks present but owner not identified">> ELSE <<>>)
    IN [score |-> score,
        level |-> IF score >= 70 THEN "HIGH" ELSE IF score >= 40 THEN "MEDIUM" ELSE "LOW",
        reasons |-> reasons]

\* Mutant of compute_risk: the near-term rule is an elif of the deadline rule
compute_risk_elif(text, tasks) ==
    LET t == low(text)
        r1 == \/ Contains(t, <<"blocked">>)
              \/ \E i \in 1..Len(tasks) : tasks[i].status = <<"blocked">>
        r2 == ContainsAny(t, {<<"unclear">>, <<"not", " ", "sure">>, <<"unknown">>,
                              <<"needs", " ", "confirmation">>})
        r3 == ContainsAny(t, {<<"deadline">>, <<"submission">>, <<"submit">>})
        r4 == ~r3 /\ ContainsAny(t, {<<"tomorrow">>, <<"today">>, <<"eod">>,
                                     <<"end", " ", "of", " ", "day">>})
        r5 == tasks # <<>> /\ ~\E i \in 1..Len(tasks) : Truthy(tasks[i].owner)
        sum == RiskBase + (IF r1 THEN 35 ELSE 0) + (IF r2 THEN 20 ELSE 0)
                        + (IF r3 THEN 15 ELSE 0) + (IF r4 THEN 20 ELSE 0)
                        + (IF r5 THEN 10 ELSE 0)
        score == IF sum < RiskCap THEN sum ELSE RiskCap
        reasons == (IF r1 THEN <<"Blocker / dependency detected">> ELSE <<>>)
                \o (IF r2 THEN <<"Ambiguity signal (unclear/unknown)">> ELSE <<>>)
                \o (IF r3 THEN <<"Deadline / submission mentioned">> ELSE <<>>)
                \o (IF r4 THEN <<"Very near-term deadline (today/tomorrow/EOD)">> ELSE <<>>)
                \o (IF r5 THEN <<"Tasks present but owner not identified">> ELSE <<>>)
    IN [score |-> score,
        level |-> IF score >= 70 THEN "HIGH" ELSE IF score >= 40 THEN "MEDIUM" ELSE "LOW",
        reasons |-> reasons]

compute_risk(text, tasks) ==
    LET t == low(text)
        r1 == \/ Contains(t, <<"blocked">>)
              \/ \E i \in 1..Len(tasks) : tasks[i].status = <<"blocked">>
        r2 == ContainsAny(t, {<<"unclear">>, <<"not", " ", "sure">>, <<"unknown">>,
                              <<"needs", " ", "confirmation">>})
        r3 == ContainsAny(t, {<<"deadline">>, <<"submission">>, <<"submit">>})
        r4 == ContainsAny(t, {<<"tomorrow">>, <<"today">>, <<"eod">>,
                              <<"end", " ", "of", " ", "day">>})
        r5 == tasks # <<>> /\ ~\E i \in 1..Len(tasks) : Truthy(tasks[i].owner)
        sum == RiskBase + (IF r1 THEN 35 ELSE 0) + (IF r2 THEN 20 ELSE 0)
                        + (IF r3 THEN 15 ELSE 0) + (IF r4 THEN 20 ELSE 0)
                        + (IF r5 THEN 10 ELSE 0)
        score == IF sum < RiskCap THEN sum ELSE RiskCap
        reasons == (IF r1 THEN <<"Blocker / dependency detected">> ELSE <<>>)
                \o (IF r2 THEN <<"Ambiguity signal (unclear/unknown)">> ELSE <<>>)
                \o (IF r3 THEN <<"Deadline / submission mentioned">> ELSE <<>>)
                \o (IF r4 THEN <<"Very near-term deadline (today/tomorrow/EOD)">> ELSE <<>>)
                \o (IF r5 THEN <<"Tasks present but owner not identified">> ELSE <<>>)
    IN [score |-> score,
        level |-> IF score >= 70 THEN "HIGH" ELSE IF score >= 40 THEN "MEDIUM" ELSE "LOW",
        reasons |-> reasons]

\* ------------------------------------------------------------------- routing
\* TEAM_KEYWORDS, in the order the dict is written
TEAM_KEYWORDS ==
    << <<"backend", <<"Backend", " ", "Lead">> >>,
       <<"frontend", <<"Frontend", " ", "Lead">> >>,
       <<"ui", <<"Frontend", " ", "Lead">> >>,
       <<"design", <<"Design", " ", "Lead">> >>,
       <<"qa", <<"QA", " ", "Lead">> >>,
       <<"testing", <<"QA", " ", "Lead">> >>,
       <<"api", <<"Backend", " ", "Lead">> >>,
       <<"infra", <<"Infra", " ", "Lead">> >>,
       <<"devops", <<"Infra", " ", "Lead">> >>,
       <<"security", <<"Security", " ", "Lead">> >> >>

ProjectManager == <<"Project", " ", "Manager">>

\* The set notify when the function returns (lines 200-214)
Notify(text, tasks) ==
    LET t == low(text)
        roles == {TEAM_KEYWORDS[i][2] :
                    i \in {k \in 1..Len(TEAM_KEYWORDS) : Contains(t, <<TEAM_KEYWORDS[k][1]>>)}}
        pm == IF ContainsAny(t, {<<"launch">>, <<"deadline">>, <<"submission">>, <<"submit">>})
              THEN {ProjectManager} ELSE {}
        owners == {tasks[i].owner : i \in {k \in 1..Len(tasks) : Truthy(tasks[k].owner)}}
        notify == roles \cup pm \cup owners
    IN IF notify = {} THEN {ProjectManager} ELSE notify

\* list(S) for a set S of str: the elements once each, in the iteration order
\* of the set, which depends on the hashes of the strings (randomised per
\* process) and not on the order of insertion: any order can come out
ListOfSet(S) ==
    {l \in [1..Cardinality(S) -> S] : \A i, j \in 1..Cardinality(S) : l[i] = l[j] => i = j}

\* Mutant of routing_suggestions: the default for an empty set is missing
routing_suggestions_no_default(text, tasks) ==
    LET t == low(text)
        roles == {TEAM_KEYWORDS[i][2] :
                    i \in {k \in 1..Len(TEAM_KEYWORDS) : Contains(t, <<TEAM_KEYWORDS[k][1]>>)}}
        pm == IF ContainsAny(t, {<<"launch">>, <<"deadline">>, <<"submission">>, <<"submit">>})
              THEN {ProjectManager} ELSE {}
        owners == {tasks[i].owner : i \in {k \in 1..Len(tasks) : Truthy(tasks[k].owner)}}
    IN ListOfSet(roles \cup pm \cup owners)

\* routing_suggestions: the lists that list(notify) can return
routing_suggestions(text, tasks) == ListOfSet(Notify(text, tasks))

\* --------------------------------------------------------------------- graph
\* add_node (lines 223-225)
add_node(nodes, n, typ) ==
    IF \E i \in 1..Len(nodes) : nodes[i].id = n THEN nodes
    ELSE Append(nodes, [id |-> n, type |-> typ])

\* task.get("task") or "Task"
TaskName(task) == IF Truthy(task.task) THEN task.task ELSE <<"Task">>

\* The edges from every recipient to one task (lines 235-236)
NotifiedAbout(routing, tname) ==
    [i \in 1..Len(routing) |-> [source |-> routing[i], target |-> tname,
                                type |-> "notified_about"]]

\* if task.get("dependency"): the dependency that gets a node, if any
DependencyOf(task) == IF Truthy(task.dependency) THEN <<task.dependency>> ELSE <<>>

\* Mutant of ContextEdges: one context edge per distinct task label
ContextEdgesPerLabel(truth_node, tasks) ==
    LET firsts == SelectSeq([i \in 1..Len(tasks) |-> i],
                            LAMBDA i : \A k \in 1..(i - 1) : TaskName(tasks[k]) # TaskName(tasks[i]))
    IN [n \in 1..Len(firsts) |-> [source |-> truth_node, target |-> TaskName(tasks[firsts[n]]),
                                  type |-> "context"]]

\* The edges from one truth to every task (lines 246-247)
ContextEdges(truth_node, tasks) ==
    [i \in 1..Len(tasks) |-> [source |-> truth_node, target |-> TaskName(tasks[i]),
                              type |-> "context"]]

build_graph(text, tasks, routing, truths) ==
    LET RECURSIVE People(_, _)
        People(g, i) ==
            IF i > Len(routing) THEN g
            ELSE People([g EXCEPT !.nodes = add_node(@, routing[i], "person")], i + 1)
        RECURSIVE Tasks(_, _)
        Tasks(g, i) ==
            IF i > Len(tasks) THEN g
            ELSE LET tname == TaskName(tasks[i])
                     n1 == add_node(g.nodes, tname, "task")
                     e1 == g.edges \o NotifiedAbout(routing, tname)
                     d == DependencyOf(tasks[i])
                     dep == <<"Dependency: ">> \o d[1]
                 IN IF d = <<>> THEN Tasks([nodes |-> n1, edges |-> e1], i + 1)
                    ELSE Tasks([nodes |-> add_node(n1, dep, "dependency"),
                                edges |-> Append(e1, [source |-> tname, target |-> dep,
                                                      type |-> "blocked_by"])], i + 1)
        RECURSIVE Truths(_, _)
        Truths(g, i) ==
            IF i > Len(truths) THEN g
            ELSE LET truth_node == <<truths[i].key, " = ">> \o truths[i].value
                 IN Truths([nodes |-> add_node(g.nodes, truth_node, "truth"),
                            edges |-> g.edges \o ContextEdges(truth_node, tasks)], i + 1)
    IN Truths(Tasks(People([nodes |-> <<>>, edges |-> <<>>], 1), 1), 1)

\* ------------------------------------------------------------------ briefing
\* str.upper()
upper(s) == [i \in 1..Len(s) |-> UpperTok(s[i])]

\* "\n".join(lines)
RECURSIVE JoinLines(_)
JoinLines(lines) ==
    IF lines = <<>> THEN <<>>
    ELSE IF Len(lines) = 1 THEN Head(lines)
    ELSE Head(lines) \o <<"\n">> \o JoinLines(Tail(lines))

\* x or default
OrElse(x, default) == IF Truthy(x) THEN x ELSE default

\* The line of one task (lines 276-282)
TaskLine(t) ==
    <<"- ">> \o (IF t.task = NoneStr THEN <<"None">> ELSE t.task)
             \o <<" | owner=">> \o OrElse(t.owner, <<"Unassigned">>)
             \o <<" | status=">> \o OrElse(t.status, <<"open">>)
             \o <<" | deadline=">> \o OrElse(t.deadline, <<"-">>)
             \o <<" | dependency=">> \o OrElse(t.dependency, <<"-">>)

\* repr of a str-or-None inside str(dict)
Repr(s) == IF s = NoneStr THEN <<"None">> ELSE <<"'">> \o s \o <<"'">>

\* The line of one conflict (lines 288-291): its question, or str(c)
ConflictLine(c) ==
    IF Truthy(c.question) THEN <<"- ">> \o c.question
    ELSE <<"- ", "{'key': ">> \o Repr(<<c.key>>) \o <<", 'old_value': ">> \o Repr(c.old_value)
         \o <<", 'new_value': ">> \o Repr(c.new_value) \o <<", 'question': ">>
         \o Repr(c.question) \o <<"}">>

\* Mutant of Section: the header and the blank line are written for an empty list too
SectionAlways(header, items) == <<<<header>>>> \o items \o << <<>> >>

\* if items: header, one line per item, one empty line (lines 267-271, 273-283, 285-292)
Section(header, items) ==
    IF items = <<>> THEN <<>> ELSE <<<<header>>>> \o items \o << <<>> >>

executive_briefing(original_text, tasks, truths, risk_level, routing, conflicts) ==
    LET level == upper(OrElse(risk_level, <<"LOW">>))
        lines ==
            << <<"Chief of Staff Briefing">>, <<>>, <<"Situation:">>,
               <<"- ">> \o Strip(original_text), <<>>,
               <<"Risk Level: ">> \o level, <<>> >>
            \o Section("Truth Updates:",
                       [i \in 1..Len(truths) |-> <<"- ", truths[i].key, " = ">> \o truths[i].value])
            \o Section("Action Items:", [i \in 1..Len(tasks) |-> TaskLine(tasks[i])])
            \o Section("Conflicts Needing Confirmation:",
                       [i \in 1..Len(conflicts) |-> ConflictLine(conflicts[i])])
            \o << <<"Notify:">> >>
            \o (IF routing # <<>> THEN [i \in 1..Len(routing) |-> <<"- ">> \o routing[i]]
                ELSE << <<"- ">> \o ProjectManager >>)
    IN JoinLines(lines)

\* -------------------------------------------------------------------- inputs
Orgs == {1, 2}

Sources == {<<"Chat update">>}

TxtEmpty == <<>>

TxtBlank == <<" ", "\n">>

TxtFriday == <<"Launch", " ", "Friday", ".">>

TxtMonday == <<" ", "Launch", " ", "Monday", ",", " ", "blocked", " ", "by", " ", "qa", "\n">>

TxtPriority == <<"Priority", ":", " ", "P0", " ", "approved">>

Texts == {TxtEmpty, TxtBlank, TxtFriday, TxtMonday, TxtPriority}

Questions == {<<"What", " ", "changed", " ", "today", "?">>, <<"hello">>}

Workers == 1..NumWorkers

NoWorker == 0

\* --------------------------------------------------------------------- state
VARIABLES
    db,     \* the committed tables, each a sequence of rows in id order
    lock,   \* the worker whose connection holds the write lock, or NoWorker
    pc,     \* each worker's position in ingest
    tx,     \* each worker's connection: the rows of its open transaction
    req,    \* each worker's locals in ingest
    last,   \* the response returned last since the latest ingest began to write
    call,   \* the analysis function under study: its arguments, then its result
    reading \* the org_state call in progress: its position and the rows it has read

vars == <<db, lock, pc, tx, req, last, call, reading>>

Tables == {"ingests", "truths", "conflicts", "tasks", "risks"}

NoRows == [tbl \in Tables |-> <<>>]

NoReq == [org_id |-> 0, source |-> <<>>, raw |-> <<>>, text |-> <<>>, ingest_id |-> 0,
          i |-> 1, j |-> 1, old_val |-> NoneStr, old_ver |-> 0, conflicts_out |-> <<>>]

InFlight == {w \in Workers : pc[w] # "idle"}

\* What the connection of worker w reads: the committed rows and its own
View(w) == [tbl \in Tables |-> db[tbl] \o tx[w][tbl]]

\* cursor.lastrowid of the next INSERT (INTEGER PRIMARY KEY AUTOINCREMENT, no deletes)
NextId(rows) == Len(rows) + 1

RECURSIVE Reverse(_)
Reverse(s) == IF s = <<>> THEN <<>> ELSE Reverse(Tail(s)) \o <<Head(s)>>

\* s[:n]
Take(s, n) == SubSeq(s, 1, IF Len(s) < n THEN Len(s) ELSE n)

\* ", ".join(parts)
RECURSIVE Join(_)
Join(parts) ==
    IF parts = <<>> THEN <<>>
    ELSE IF Len(parts) = 1 THEN <<Head(parts)>>
    ELSE <<Head(parts), ", ">> \o Join(Tail(parts))

\* Mutant of get_latest_truth: the WHERE clause has the key alone
get_latest_truth_any_org(rows, org_id, key) ==
    LET mine == {i \in 1..Len(rows) : rows[i].key = key}
    IN IF mine = {} THEN <<NoneStr, 0>>
       ELSE LET top == CHOOSE i \in mine :
                          \A k \in mine : \/ rows[k].version < rows[i].version
                                          \/ (rows[k].version = rows[i].version /\ k <= i)
            IN <<rows[top].value, rows[top].version>>

\* Mutant of get_latest_truth: ORDER BY version without DESC
get_latest_truth_oldest(rows, org_id, key) ==
    LET mine == {i \in 1..Len(rows) : rows[i].org_id = org_id /\ rows[i].key = key}
    IN IF mine = {} THEN <<NoneStr, 0>>
       ELSE LET top == CHOOSE i \in mine : \A k \in mine : rows[i].version <= rows[k].version
            IN <<rows[top].value, rows[top].version>>

\* SELECT value, version FROM truths WHERE org_id=? AND key=?
\* ORDER BY version DESC LIMIT 1, or (None, 0)
get_latest_truth(rows, org_id, key) ==
    LET mine == {i \in 1..Len(rows) : rows[i].org_id = org_id /\ rows[i].key = key}
    IN IF mine = {} THEN <<NoneStr, 0>>
       ELSE LET top == CHOOSE i \in mine : \A k \in mine : rows[k].version <= rows[i].version
            IN <<rows[top].value, rows[top].version>>

\* new_ver = old_ver + 1
NewVersion(old_ver) == old_ver + 1

\* Mutant of Question: the two values change places
QuestionSwapped(key, old_val, val) ==
    <<"Which is correct for ", key, ": '">> \o val \o <<"' or '">> \o old_val \o <<"'?">>

\* f"Which is correct for {key}: '{old_val}' or '{val}'?"
Question(key, old_val, val) ==
    <<"Which is correct for ", key, ": '">> \o old_val \o <<"' or '">> \o val \o <<"'?">>

\* Mutant of LockFree: writers are not excluded
LockFreeAlways == TRUE

\* A connection that begins to write gets the write lock: no other holds it
LockFree == lock = NoWorker

\* Mutant of Execute: every statement is committed on its own
ExecuteAutocommit(w, tbl, row) ==
    /\ db' = [db EXCEPT ![tbl] = Append(@, row)]
    /\ tx' = tx

\* c.execute("INSERT INTO tbl ..."): the row joins the open transaction of w
Execute(w, tbl, row) ==
    /\ tx' = [tx EXCEPT ![w][tbl] = Append(@, row)]
    /\ db' = db

\* Mutant of Committed: a key's new TruthRecord replaces its earlier ones
CommittedUpsert(d, t) ==
    LET Kept(rows) ==
            SelectSeq(rows, LAMBDA r : ~\E n \in 1..Len(t.truths) :
                                           /\ t.truths[n].org_id = r.org_id
                                           /\ t.truths[n].key = r.key)
    IN [tbl \in Tables |-> (IF tbl = "truths" THEN Kept(d[tbl]) ELSE d[tbl]) \o t[tbl]]

\* conn.commit(): the rows of the transaction become durable, all at once
Committed(d, t) == [tbl \in Tables |-> d[tbl] \o t[tbl]]

\* No analysis function is under study
NoCall == [op |-> "none"]

\* No org_state call is in progress
NotReading ==
    [pc |-> "idle", org_id |-> 0, rows |-> <<>>, conflicts |-> <<>>, history |-> <<>>,
     latest_risk |-> <<>>, calls |-> 0]

Init ==
    /\ call = NoCall
    /\ reading = NotReading
    /\ db = NoRows
    /\ lock = NoWorker
    /\ pc = [w \in Workers |-> "idle"]
    /\ tx = [w \in Workers |-> NoRows]
    /\ req = [w \in Workers |-> NoReq]
    /\ last = [op |-> "none", org_id |-> 0, status |-> "none", error |-> "",
               body |-> [none |-> TRUE]]

\* What a handler returns: the JSON body, or {"error": ...}
Response(op, org_id, body) ==
    [op |-> op, org_id |-> org_id, status |-> "ok", error |-> "", body |-> body]

ErrorResponse(op, error) ==
    [op |-> op, org_id |-> 0, status |-> "error", error |-> error,
     body |-> [none |-> TRUE]]

\* An error together with the organisation of the request it answers
RequestError(op, org_id, error) ==
    [op |-> op, org_id |-> org_id, status |-> "error", error |-> error,
     body |-> [none |-> TRUE]]

NoResponse ==
    [op |-> "none", org_id |-> 0, status |-> "none", error |-> "", body |-> [none |-> TRUE]]

\* The analyses of the stripped texts, computed once per text
Accepted == {Strip(raw) : raw \in Texts}

TruthsOf == [text \in Accepted |-> extract_truths(text)]

TasksOf == [text \in Accepted |-> extract_tasks(text)]

RiskOf == [text \in Accepted |-> compute_risk(text, TasksOf[text])]

\* -------------------------------------------------------------------- ingest
\* Mutant of IsEmptyText: the text is tested before it is stripped
IsEmptyTextUnstripped(raw) == raw = <<>>

\* text = (data.text or "").strip(); if not text
IsEmptyText(raw) == Strip(raw) = <<>>

\* ingest, lines 175-177: empty or whitespace-only text is rejected (on any
\* thread of the server's pool)
IngestEmpty(org_id, raw, source) ==
    /\ IsEmptyText(raw)
    /\ last' = ErrorResponse("ingest", "Empty text")
    /\ UNCHANGED <<db, lock, pc, tx, req, call, reading>>

\* The position after the truth loop has handled truth i - 1
AfterTruth(text, i) ==
    IF i <= Len(TruthsOf[text]) THEN "read"
    ELSE IF TasksOf[text] # <<>> THEN "tasks" ELSE "risk"

\* ingest, lines 175-192: the text is analysed, a connection is opened, and the
\* first INSERT opens its transaction and takes the write lock
IngestBegin(w, org_id, raw, source) ==
    /\ pc[w] = "idle"
    /\ Len(db.ingests) + Cardinality(InFlight) < MaxIngests
    /\ ~IsEmptyText(raw)
    /\ LockFree
    /\ lock' = w
    /\ LET id == NextId(View(w).ingests)
       IN /\ Execute(w, "ingests", [id |-> id, org_id |-> org_id,
                                    source |-> source, text |-> Strip(raw)])
          /\ req' = [req EXCEPT ![w] = [NoReq EXCEPT !.org_id = org_id, !.source = source,
                                                     !.raw = raw, !.text = Strip(raw),
                                                     !.ingest_id = id]]
    /\ pc' = [pc EXCEPT ![w] = AfterTruth(Strip(raw), 1)]
    /\ last' = NoResponse
    /\ UNCHANGED <<call, reading>>

\* ingest, lines 175-191 and 253-254: the write lock is held by another connection
\* until the busy timeout ends: sqlite3.OperationalError, returned as an error
\* (on any thread of the server's pool; the connection holds nothing)
IngestBusy(org_id, raw, source) ==
    /\ ~IsEmptyText(raw)
    /\ ~LockFree
    /\ last' = RequestError("ingest", org_id, "database is locked")
    /\ UNCHANGED <<db, lock, pc, tx, req, call, reading>>

\* ingest, lines 196-199: read the current value and version, detect a conflict
ReadTruth(w) ==
    /\ pc[w] = "read"
    /\ LET tr == TruthsOf[req[w].text][req[w].i]
           old == get_latest_truth(View(w).truths, req[w].org_id, tr.key)
       IN /\ req' = [req EXCEPT ![w].old_val = old[1], ![w].old_ver = old[2]]
          /\ pc' = [pc EXCEPT ![w] = IF detect_conflicts(old[1], tr.value)
                                     THEN "conflict" ELSE "append"]
    /\ UNCHANGED <<db, lock, tx, last, call, reading>>

\* Mutant of InsertConflict: the new value is recorded as the old value too
InsertConflictNewAsOld(w) ==
    /\ pc[w] = "conflict"
    /\ LET tr == TruthsOf[req[w].text][req[w].i]
           question == Question(tr.key, req[w].old_val, tr.value)
       IN /\ Execute(w, "conflicts",
                     [id |-> NextId(View(w).conflicts), org_id |-> req[w].org_id,
                      key |-> tr.key, old_value |-> tr.value,
                      new_value |-> tr.value, question |-> question])
          /\ req' = [req EXCEPT ![w].conflicts_out =
                        Append(@, [key |-> tr.key, old_value |-> req[w].old_val,
                                   new_value |-> tr.value, question |-> question])]
    /\ pc' = [pc EXCEPT ![w] = "append"]
    /\ UNCHANGED <<lock, last, call, reading>>

\* ingest, lines 200-207
InsertConflict(w) ==
    /\ pc[w] = "conflict"
    /\ LET tr == TruthsOf[req[w].text][req[w].i]
           question == Question(tr.key, req[w].old_val, tr.value)
       IN /\ Execute(w, "conflicts",
                     [id |-> NextId(View(w).conflicts), org_id |-> req[w].org_id,
                      key |-> tr.key, old_value |-> req[w].old_val,
                      new_value |-> tr.value, question |-> question])
          /\ req' = [req EXCEPT ![w].conflicts_out =
                        Append(@, [key |-> tr.key, old_value |-> req[w].old_val,
                                   new_value |-> tr.value, question |-> question])]
    /\ pc' = [pc EXCEPT ![w] = "append"]
    /\ UNCHANGED <<lock, last, call, reading>>

\* Mutant of InsertTruth: a detected conflict keeps the new version back
InsertTruthUnlessConflict(w) ==
    /\ pc[w] = "append"
    /\ LET tr == TruthsOf[req[w].text][req[w].i]
       IN IF detect_conflicts(req[w].old_val, tr.value)
          THEN UNCHANGED <<db, tx>>
          ELSE Execute(w, "truths",
                       [id |-> NextId(View(w).truths), org_id |-> req[w].org_id,
                        key |-> tr.key, value |-> tr.value,
                        version |-> NewVersion(req[w].old_ver)])
    /\ req' = [req EXCEPT ![w].i = @ + 1]
    /\ pc' = [pc EXCEPT ![w] = AfterTruth(req[w].text, req[w].i + 1)]
    /\ UNCHANGED <<lock, last, call, reading>>

\* ingest, lines 209-213
InsertTruth(w) ==
    /\ pc[w] = "append"
    /\ LET tr == TruthsOf[req[w].text][req[w].i]
       IN Execute(w, "truths",
                  [id |-> NextId(View(w).truths), org_id |-> req[w].org_id,
                   key |-> tr.key, value |-> tr.value,
                   version |-> NewVersion(req[w].old_ver)])
    /\ req' = [req EXCEPT ![w].i = @ + 1]
    /\ pc' = [pc EXCEPT ![w] = AfterTruth(req[w].text, req[w].i + 1)]
    /\ UNCHANGED <<lock, last, call, reading>>

\* ingest, lines 215-227: one task draft per step
InsertTask(w) ==
    /\ pc[w] = "tasks"
    /\ LET tasks == TasksOf[req[w].text]
           t == tasks[req[w].j]
       IN /\ Execute(w, "tasks",
                     [id |-> NextId(View(w).tasks), org_id |-> req[w].org_id,
                      ingest_id |-> req[w].ingest_id, task |-> t.task, owner |-> t.owner,
                      status |-> t.status, deadline |-> t.deadline,
                      dependency |-> t.dependency])
          /\ pc' = [pc EXCEPT ![w] = IF req[w].j + 1 <= Len(tasks) THEN "tasks" ELSE "risk"]
    /\ req' = [req EXCEPT ![w].j = @ + 1]
    /\ UNCHANGED <<lock, last, call, reading>>

\* Mutant of InsertRisk: the risk is tagged with c.lastrowid as it is then, the
\* id of the row inserted last, and not with the id kept after the first INSERT
InsertRiskLastRowId(w) ==
    /\ pc[w] = "risk"
    /\ LET risk == RiskOf[req[w].text]
       IN Execute(w, "risks",
                  [id |-> NextId(View(w).risks), org_id |-> req[w].org_id,
                   ingest_id |-> IF TasksOf[req[w].text] # <<>> THEN Len(View(w).tasks)
                                 ELSE req[w].ingest_id,
                   score |-> risk.score,
                   level |-> risk.level, reasons |-> Join(risk.reasons)])
    /\ pc' = [pc EXCEPT ![w] = "commit"]
    /\ UNCHANGED <<lock, req, last, call, reading>>

\* ingest, lines 229-232
InsertRisk(w) ==
    /\ pc[w] = "risk"
    /\ LET risk == RiskOf[req[w].text]
       IN Execute(w, "risks",
                  [id |-> NextId(View(w).risks), org_id |-> req[w].org_id,
                   ingest_id |-> req[w].ingest_id, score |-> risk.score,
                   level |-> risk.level, reasons |-> Join(risk.reasons)])
    /\ pc' = [pc EXCEPT ![w] = "commit"]
    /\ UNCHANGED <<lock, req, last, call, reading>>

\* The bundle ingest returns (lines 240-251)
IngestResult(r) ==
    LET risk == RiskOf[r.text]
    IN [ingest_id |-> r.ingest_id,
        tasks |-> TasksOf[r.text],
        truths_updated |-> TruthsOf[r.text],
        conflicts |-> r.conflicts_out,
        risk_score |-> risk.score,
        risk_level |-> risk.level,
        reasons |-> risk.reasons]

\* ingest, lines 234-251: commit, close, return the bundle
Commit(w) ==
    /\ pc[w] = "commit"
    /\ db' = Committed(db, tx[w])
    /\ tx' = [tx EXCEPT ![w] = NoRows]
    /\ lock' = IF lock = w THEN NoWorker ELSE lock
    /\ pc' = [pc EXCEPT ![w] = "idle"]
    /\ req' = [req EXCEPT ![w] = NoReq]
    /\ last' = Response("ingest", req[w].org_id, IngestResult(req[w]))
    /\ UNCHANGED <<call, reading>>

WritePcs == {"read", "conflict", "append", "tasks", "risk", "commit"}

\* ingest, lines 253-254: a statement after the first INSERT (or the commit) raises;
\* the error is returned, the connection is neither rolled back nor closed
StoreFailure(w) ==
    /\ pc[w] \in WritePcs
    /\ pc' = [pc EXCEPT ![w] = "failed"]
    /\ last' = ErrorResponse("ingest", "store failure")
    /\ UNCHANGED <<db, lock, tx, req, call, reading>>

\* The abandoned connection is released by the runtime: its open transaction is
\* rolled back and its lock given up
ReleaseConnection(w) ==
    /\ pc[w] = "failed"
    /\ tx' = [tx EXCEPT ![w] = NoRows]
    /\ lock' = IF lock = w THEN NoWorker ELSE lock
    /\ pc' = [pc EXCEPT ![w] = "idle"]
    /\ req' = [req EXCEPT ![w] = NoReq]
    /\ UNCHANGED <<db, last, call, reading>>

\* ----------------------------------------------------------------- org_state
\* The rows of a table that belong to one organisation: WHERE org_id=?
RECURSIVE OfOrg(_, _)
OfOrg(rows, org_id) ==
    IF rows = <<>> THEN <<>>
    ELSE (IF Head(rows).org_id = org_id THEN <<Head(rows)>> ELSE <<>>)
         \o OfOrg(Tail(rows), org_id)

\* Position of a key in ORDER BY key (byte order of the key strings)
KeyRank(key) ==
    CASE key = "decision_status" -> 1
      [] key = "launch_date" -> 2
      [] key = "priority" -> 3
      [] key = "scope" -> 4

\* Mutant of TruthBefore: ORDER BY key, version
TruthBeforeAscending(a, b) ==
    \/ KeyRank(a.key) < KeyRank(b.key)
    \/ (a.key = b.key /\ a.version < b.version)

\* ORDER BY key, version DESC
TruthBefore(a, b) ==
    \/ KeyRank(a.key) < KeyRank(b.key)
    \/ (a.key = b.key /\ a.version > b.version)

\* rows sorted by TruthBefore; rows that compare equal keep their id order
RECURSIVE SortTruths(_)
SortTruths(rows) ==
    IF rows = <<>> THEN <<>>
    ELSE LET first == CHOOSE i \in 1..Len(rows) :
                          /\ \A k \in 1..Len(rows) : ~TruthBefore(rows[k], rows[i])
                          /\ \A k \in 1..(i - 1) : TruthBefore(rows[i], rows[k])
             rest == [k \in 1..(Len(rows) - 1) |-> IF k < first THEN rows[k] ELSE rows[k + 1]]
         IN <<rows[first]>> \o SortTruths(rest)

RECURSIVE WithKey(_, _)
WithKey(rows, key) ==
    IF rows = <<>> THEN <<>>
    ELSE (IF Head(rows).key = key
          THEN <<[value |-> Head(rows).value, version |-> Head(rows).version]>> ELSE <<>>)
         \o WithKey(Tail(rows), key)

RECURSIVE OfIngest(_, _)
OfIngest(rows, ingest_id) ==
    IF rows = <<>> THEN <<>>
    ELSE (IF Head(rows).ingest_id = ingest_id THEN <<Head(rows)>> ELSE <<>>)
         \o OfIngest(Tail(rows), ingest_id)

ConflictLimit == 10

HistoryLimit == 50

\* Mutant of TruthRows: the WHERE org_id=? clause is missing
TruthRowsAnyOrg(d, org_id) == SortTruths(d.truths)

\* SELECT ... FROM truths WHERE org_id=? ORDER BY key, version DESC (lines 262-268)
TruthRows(d, org_id) == SortTruths(OfOrg(d.truths, org_id))

\* Mutant of TaskRows: WHERE org_id=? alone
TaskRowsOfOrg(d, org_id, ingest_id) == Reverse(OfOrg(d.tasks, org_id))

\* SELECT ... FROM tasks WHERE org_id=? AND ingest_id=? ORDER BY id DESC (lines 308-313)
TaskRows(d, org_id, ingest_id) == Reverse(OfIngest(OfOrg(d.tasks, org_id), ingest_id))

\* org_state, lines 270-275: the versions of each key, newest first
Timeline(rows) ==
    [k \in {rows[i].key : i \in 1..Len(rows)} |-> WithKey(rows, k)]

\* org_state, lines 270-275: the first row of each key
LatestTruths(rows) ==
    [k \in {rows[i].key : i \in 1..Len(rows)} |-> Head(WithKey(rows, k))]

\* SELECT ... FROM conflicts WHERE org_id=? ORDER BY id DESC LIMIT 10 (lines 277-286)
ConflictRows(d, org_id) ==
    LET crows == Take(Reverse(OfOrg(d.conflicts, org_id)), ConflictLimit)
    IN [i \in 1..Len(crows) |->
           [key |-> crows[i].key, old_value |-> crows[i].old_value,
            new_value |-> crows[i].new_value, question |-> crows[i].question]]

\* SELECT ... FROM ingests WHERE org_id=? ORDER BY id DESC LIMIT 50 (lines 288-294)
HistoryRows(d, org_id) ==
    LET hrows == Take(Reverse(OfOrg(d.ingests, org_id)), HistoryLimit)
    IN [i \in 1..Len(hrows) |->
           [id |-> hrows[i].id, source |-> hrows[i].source, text |-> hrows[i].text]]

\* SELECT ... FROM risks WHERE org_id=? ORDER BY id DESC LIMIT 1 (lines 296-303):
\* the empty sequence is None
LatestRisk(d, org_id) ==
    LET rrows == Take(Reverse(OfOrg(d.risks, org_id)), 1)
    IN [i \in 1..Len(rrows) |->
           [score |-> rrows[i].score, level |-> rrows[i].level,
            reasons |-> rrows[i].reasons]]

\* org_state, lines 305-317: the tasks of the ingest at the head of history
LatestTasks(d, org_id, history) ==
    LET trows == IF history # <<>> THEN TaskRows(d, org_id, history[1].id) ELSE <<>>
    IN [i \in 1..Len(trows) |->
           [task |-> trows[i].task, owner |-> trows[i].owner,
            status |-> trows[i].status, deadline |-> trows[i].deadline,
            dependency |-> trows[i].dependency]]

\* The body org_state returns (lines 320-328)
StateBody(org_id, rows, conflicts, history, latest_risk, tasks) ==
    [org_id |-> org_id,
     latest_truths |-> LatestTruths(rows),
     truth_timeline |-> Timeline(rows),
     latest_risk |-> latest_risk,
     conflicts |-> conflicts,
     latest_tasks |-> tasks,
     history |-> history]

\* org_state, lines 259-328, when all its SELECTs read the same committed rows d
org_state(d, org_id) ==
    StateBody(org_id, TruthRows(d, org_id), ConflictRows(d, org_id),
              HistoryRows(d, org_id), LatestRisk(d, org_id),
              LatestTasks(d, org_id, HistoryRows(d, org_id)))

\* An org_state call that no commit overlaps, taken between transactions: its
\* SELECTs all read the same committed rows
OrgState(org_id) ==
    /\ InFlight = {}
    /\ last' = Response("org_state", org_id, org_state(db, org_id))
    /\ UNCHANGED <<db, lock, pc, tx, req, call, reading>>

\* ask, lines 334-352
ask(d, org_id, question) ==
    LET state == org_state(d, org_id)
        q == low(question)
    IN IF ContainsAny(q, {<<"changed">>, <<"today">>, <<"digest">>})
       THEN [latest_risk |-> state.latest_risk,
             truths |-> state.latest_truths,
             conflicts |-> Take(state.conflicts, 5),
             recent_updates |-> Take(state.history, 5)]
       ELSE [hint |-> "Try: What changed today?"]

Ask(org_id, question) ==
    /\ InFlight = {}
    /\ last' = Response("ask", org_id, ask(db, org_id, question))
    /\ UNCHANGED <<db, lock, pc, tx, req, call, reading>>

\* ------------------------------------------------------------- specification
Next ==
    \/ \E org_id \in Orgs, raw \in Texts, source \in Sources :
          \/ IngestEmpty(org_id, raw, source)
          \/ IngestBusy(org_id, raw, source)
          \/ \E w \in Workers : IngestBegin(w, org_id, raw, source)
    \/ \E w \in Workers :
          \/ ReadTruth(w)
          \/ InsertConflict(w)
          \/ InsertTruth(w)
          \/ InsertTask(w)
          \/ InsertRisk(w)
          \/ Commit(w)
          \/ StoreFailure(w)
          \/ ReleaseConnection(w)
    \/ \E org_id \in Orgs : OrgState(org_id)
    \/ \E org_id \in Orgs, question \in Questions : Ask(org_id, question)

Spec == Init /\ [][Next]_vars

\* ------------------------------------------------- org_state, SELECT by SELECT
\* The connection of org_state is in autocommit mode for its SELECTs (sqlite3
\* opens a transaction before INSERT, UPDATE and DELETE only), so each SELECT
\* reads the rows committed when it runs, and an ingest may commit between two.

\* org_state, lines 259-275
SelectTruths(org_id) ==
    /\ reading.pc = "idle"
    /\ reading.calls < MaxReads
    /\ reading' = [NotReading EXCEPT !.pc = "conflicts", !.org_id = org_id,
                                     !.rows = TruthRows(db, org_id),
                                     !.calls = reading.calls + 1]
    /\ UNCHANGED <<db, lock, pc, tx, req, last, call>>

\* org_state, lines 277-286
SelectConflicts ==
    /\ reading.pc = "conflicts"
    /\ reading' = [reading EXCEPT !.pc = "history",
                                  !.conflicts = ConflictRows(db, reading.org_id)]
    /\ UNCHANGED <<db, lock, pc, tx, req, last, call>>

\* org_state, lines 288-294
SelectHistory ==
    /\ reading.pc = "history"
    /\ reading' = [reading EXCEPT !.pc = "risk",
                                  !.history = HistoryRows(db, reading.org_id)]
    /\ UNCHANGED <<db, lock, pc, tx, req, last, call>>

\* org_state, lines 296-303
SelectRisk ==
    /\ reading.pc = "risk"
    /\ reading' = [reading EXCEPT !.pc = "tasks",
                                  !.latest_risk = LatestRisk(db, reading.org_id)]
    /\ UNCHANGED <<db, lock, pc, tx, req, last, call>>

\* org_state, lines 305-328: the tasks are selected and the body is returned
SelectTasks ==
    /\ reading.pc = "tasks"
    /\ last' = Response("org_state", reading.org_id,
                        StateBody(reading.org_id, reading.rows, reading.conflicts,
                                  reading.history, reading.latest_risk,
                                  LatestTasks(db, reading.org_id, reading.history)))
    /\ reading' = [NotReading EXCEPT !.calls = reading.calls]
    /\ UNCHANGED <<db, lock, pc, tx, req, call>>

\* The requests are ingests that the store accepts and org_state calls
ConcurrentNext ==
    \/ \E org_id \in Orgs, raw \in Texts, source \in Sources, w \in Workers :
          IngestBegin(w, org_id, raw, source)
    \/ \E w \in Workers :
          \/ ReadTruth(w)
          \/ InsertConflict(w)
          \/ InsertTruth(w)
          \/ InsertTask(w)
          \/ InsertRisk(w)
          \/ Commit(w)
    \/ \E org_id \in Orgs : SelectTruths(org_id)
    \/ SelectConflicts
    \/ SelectHistory
    \/ SelectRisk
    \/ SelectTasks

ConcurrentSpec == Init /\ [][ConcurrentNext]_vars

\* ------------------------------------------------------- the analysis functions
\* The analysis functions of intelligence.py, each applied to arguments drawn
\* from the sets below: texts as ingest passes them on, the task drafts, truths
\* and recipients extracted from them, and lists made by hand.
TxtPlain == <<"hello", " ", "team">>

TxtWorst == <<"blocked", " ", "unclear", " ", "deadline", " ", "tomorrow">>

TxtNoOwner == <<"owner", " ", "is", " ", " ", " ", ".">>

TxtNoDependency == <<"x", " ", "blocked", " ", "by", " ", " ", ".">>

TxtTeams == <<"backend", " ", "qa", " ", "launch", ",", " ", "assigned", " ", "to", " ", "Sana">>

TxtManager == <<"pm", " ", "launch", " ", "Friday", " ", "owner", " ", "is", " ", "Ali", " ",
                "Khan", ".">>

TxtActors == <<"Sana", " ", "will", " ", "lead", ".", " ", "Ali", " ", "Khan", " ", "was", " ",
               "leading", ",", " ", "owner", " ", "is", " ", "Ali", " ", "Khan", ".">>

TxtWaiting == <<"submit", " ", "by", " ", "Friday", ",", " ", "assigned", " ", "to", " ", " ",
                "Sana", " ", ".", "waiting", " ", "on", " ", "infra", " ", "team", "!">>

TxtAll == <<"Launch", " ", "blocked", ",", " ", "submit", " ", "by", " ", "Friday", ".", " ",
            "handled", " ", "by", " ", "Sana", ".", " ", "Ali", " ", "will", " ", "handle">>

TxtUnsure == <<"blocked", ",", " ", "not", " ", "sure">>

TxtUnconfirmed == <<"needs", " ", "confirmation">>

TxtSubmission == <<"submission", " ", "soon">>

AnalysisTexts ==
    {TxtPlain, TxtWorst, TxtNoOwner, TxtNoDependency, TxtTeams, TxtManager, TxtActors,
     TxtWaiting, TxtAll, TxtUnsure, TxtUnconfirmed, TxtSubmission, TxtFriday, TxtPriority}

\* Task lists that no text of AnalysisTexts yields
HandTasks ==
    { << [task |-> <<"Review">>, status |-> <<"blocked">>, deadline |-> NoneStr,
          owner |-> <<"Sana">>, dependency |-> <<"qa">>],
         [task |-> <<"Review">>, status |-> NoneStr, deadline |-> <<"Today">>,
          owner |-> <<"Sana">>, dependency |-> NoneStr] >>,
      << [task |-> <<"Review">>, status |-> <<"blocked">>, deadline |-> NoneStr,
          owner |-> NoneStr, dependency |-> NoneStr] >> }

\* Recipient lists that routing_suggestions does not return
HandRouting == { <<>>, <<ProjectManager, <<"Review">>, ProjectManager>> }

HandConflicts ==
    { <<>>,
      << [key |-> "launch_date", old_value |-> <<"Friday">>, new_value |-> <<"Monday">>,
          question |-> Question("launch_date", <<"Friday">>, <<"Monday">>)],
         [key |-> "priority", old_value |-> <<"P0">>, new_value |-> <<"P1">>,
          question |-> NoneStr] >> }

\* The arguments of one call
Arguments ==
    UNION { UNION { { [op |-> "input", text |-> text, tasks |-> tasks,
                       truths |-> extract_truths(text), routing |-> routing,
                       conflicts |-> conflicts, risk_level |-> risk_level, out |-> <<>>] :
                      routing \in routing_suggestions(text, tasks) \cup HandRouting,
                      conflicts \in HandConflicts,
                      risk_level \in {NoneStr, <<"medium">>} } :
                    tasks \in {extract_tasks(text)} \cup HandTasks } :
            text \in {Strip(raw) : raw \in AnalysisTexts} }

AnalysisInit ==
    /\ call \in Arguments
    /\ reading = NotReading
    /\ db = NoRows
    /\ lock = NoWorker
    /\ pc = [w \in Workers |-> "idle"]
    /\ tx = [w \in Workers |-> NoRows]
    /\ req = [w \in Workers |-> NoReq]
    /\ last = NoResponse

Returned(op, out) == [call EXCEPT !.op = op, !.out = out]

CallExtractTasks ==
    /\ call.op = "input"
    /\ call' = Returned("extract_tasks", extract_tasks(call.text))
    /\ UNCHANGED <<db, lock, pc, tx, req, last, reading>>

CallComputeRisk ==
    /\ call.op = "input"
    /\ call' = Returned("compute_risk", compute_risk(call.text, call.tasks))
    /\ UNCHANGED <<db, lock, pc, tx, req, last, reading>>

CallRoutingSuggestions ==
    /\ call.op = "input"
    /\ \E routing \in routing_suggestions(call.text, call.tasks) :
          call' = Returned("routing_suggestions", routing)
    /\ UNCHANGED <<db, lock, pc, tx, req, last, reading>>

CallBuildGraph ==
    /\ call.op = "input"
    /\ call' = Returned("build_graph",
                        build_graph(call.text, call.tasks, call.routing, call.truths))
    /\ UNCHANGED <<db, lock, pc, tx, req, last, reading>>

CallExecutiveBriefing ==
    /\ call.op = "input"
    /\ call' = Returned("executive_briefing",
                        executive_briefing(call.text, call.tasks, call.truths,
                                           call.risk_level, call.routing, call.conflicts))
    /\ UNCHANGED <<db, lock, pc, tx, req, last, reading>>

AnalysisNext ==
    \/ CallExtractTasks
    \/ CallComputeRisk
    \/ CallRoutingSuggestions
    \/ CallBuildGraph
    \/ CallExecutiveBriefing

AnalysisSpec == AnalysisInit /\ [][AnalysisNext]_vars

\* -------------------------------------------------------------------- claims
Keys == {"launch_date", "priority", "decision_status", "scope"}

\* The rows of one (org, key), in the order they were appended
RECURSIVE About(_, _, _)
About(rows, org_id, key) ==
    IF rows = <<>> THEN <<>>
    ELSE (IF Head(rows).org_id = org_id /\ Head(rows).key = key THEN <<Head(rows)>> ELSE <<>>)
         \o About(Tail(rows), org_id, key)

\* A step in which worker w commits its ingest
CommitStep(w) == pc[w] = "commit" /\ pc'[w] = "idle"

IsPrefix(s, t) == Len(s) <= Len(t) /\ SubSeq(t, 1, Len(s)) = s

IsBlank(raw) == \A i \in 1..Len(raw) : raw[i] \in Whitespace

\* C1: for every (org, key) the committed TruthRecords carry, in append order,
\* exactly the versions 1, 2, ..., n: no gap and no reuse.
C1_VersionsContiguous ==
    \A org_id \in Orgs, key \in Keys :
        LET rows == About(db.truths, org_id, key)
        IN \A n \in 1..Len(rows) : rows[n].version = n

\* Three versions of one key have been committed.
C1_Witness == Len(About(db.truths, 1, "launch_date")) = 3

\* C2: with ingests running concurrently, each on its own connection, no two
\* committed TruthRecords of one (org, key) share a version, and every writer's
\* conflict detection is evaluated against the value committed just before it:
\* two consecutive versions with different values have their ConflictRecord, and
\* every ConflictRecord is about two consecutive versions.
C2_SerializedPerKey ==
    \A org_id \in Orgs, key \in Keys :
        LET rows == About(db.truths, org_id, key)
            cs == About(db.conflicts, org_id, key)
        IN /\ \A a, b \in 1..Len(rows) : a # b => rows[a].version # rows[b].version
           /\ \A n \in 2..Len(rows) :
                 rows[n - 1].value # rows[n].value =>
                     \E c \in 1..Len(cs) : /\ cs[c].old_value = rows[n - 1].value
                                           /\ cs[c].new_value = rows[n].value
           /\ \A c \in 1..Len(cs) :
                 \E n \in 2..Len(rows) : /\ rows[n - 1].value = cs[c].old_value
                                         /\ rows[n].value = cs[c].new_value
                                         /\ rows[n - 1].value # rows[n].value

\* A second writer of (1, launch_date) is between its read of the committed
\* version 1 and its append, while another ingest of the same organisation has
\* been turned away at the write lock.
C2_Witness ==
    /\ last.error = "database is locked"
    /\ last.org_id = 1
    /\ \E w \in Workers :
          /\ pc[w] \in {"conflict", "append"}
          /\ req[w].org_id = 1
          /\ TruthsOf[req[w].text][req[w].i].key = "launch_date"
          /\ req[w].old_ver = 1

\* The rows one whole ingest adds to the store
WholeIngest(d, e, r) ==
    LET truths == extract_truths(r.text)
        tasks == extract_tasks(r.text)
        nt == Len(d.truths)
        nc == Len(d.conflicts)
        nk == Len(d.tasks)
    IN /\ e.ingests = Append(d.ingests, [id |-> r.ingest_id, org_id |-> r.org_id,
                                         source |-> r.source, text |-> r.text])
       /\ IsPrefix(d.truths, e.truths) /\ Len(e.truths) = nt + Len(truths)
       /\ \A n \in 1..Len(truths) : /\ e.truths[nt + n].org_id = r.org_id
                                    /\ e.truths[nt + n].key = truths[n].key
                                    /\ e.truths[nt + n].value = truths[n].value
       /\ IsPrefix(d.conflicts, e.conflicts) /\ Len(e.conflicts) = nc + Len(r.conflicts_out)
       /\ \A n \in 1..Len(r.conflicts_out) :
             /\ e.conflicts[nc + n].org_id = r.org_id
             /\ e.conflicts[nc + n].key = r.conflicts_out[n].key
             /\ e.conflicts[nc + n].new_value = r.conflicts_out[n].new_value
       /\ IsPrefix(d.tasks, e.tasks) /\ Len(e.tasks) = nk + Len(tasks)
       /\ \A n \in 1..Len(tasks) : /\ e.tasks[nk + n].ingest_id = r.ingest_id
                                   /\ e.tasks[nk + n].org_id = r.org_id
                                   /\ e.tasks[nk + n].task = tasks[n].task
       /\ Len(e.risks) = Len(d.risks) + 1
       /\ IsPrefix(d.risks, e.risks)
       /\ e.risks[Len(e.risks)].ingest_id = r.ingest_id
       /\ e.risks[Len(e.risks)].org_id = r.org_id

\* C3: an ingest is durable as one unit.  The committed store changes only in
\* the commit step of an ingest, and then by all of that ingest's rows at once
\* (its RawUpdate, every TruthRecord, ConflictRecord and Task, its
\* RiskAssessment); a failure at any statement after the RawUpdate insert, and the
\* release of the abandoned connection, leave the committed store as it was.
C3_AtomicIngest ==
    [][/\ db' # db => \E w \in Workers : CommitStep(w) /\ WholeIngest(db, db', req[w])
       /\ \A w \in Workers : CommitStep(w) => WholeIngest(db, db', req[w])
       /\ \A w \in Workers : (pc'[w] = "failed" \/ pc[w] = "failed") => db' = db]_vars

\* An ingest has failed after it wrote a ConflictRecord and a TruthRecord, and the
\* committed store holds the one earlier ingest only.
C3_Witness ==
    /\ \E w \in Workers : /\ pc[w] = "failed"
                          /\ tx[w].conflicts # <<>>
                          /\ tx[w].truths # <<>>
    /\ Len(db.ingests) = 1
    /\ Len(db.truths) = 1
    /\ db.conflicts = <<>>

\* The current TruthRecord of (org, key): the one of the highest version
\* (a sequence of no or one row)
Current(rows, org_id, key) ==
    LET rs == About(rows, org_id, key)
    IN IF rs = <<>> THEN <<>>
       ELSE <<rs[CHOOSE i \in 1..Len(rs) : \A k \in 1..Len(rs) : rs[k].version <= rs[i].version]>>

\* C4: a conflict never blocks the write.  For every truth extracted by an ingest
\* that commits, exactly one TruthRecord of its key is added, at the version
\* after the one that was current, and with the extracted value, which is the
\* current value afterwards, whether or not a ConflictRecord was created.
C4_ConflictNeverBlocks ==
    [][\A w \in Workers :
          CommitStep(w) =>
              \A n \in 1..Len(extract_truths(req[w].text)) :
                  LET tr == extract_truths(req[w].text)[n]
                      before == About(db.truths, req[w].org_id, tr.key)
                      after == About(db'.truths, req[w].org_id, tr.key)
                      old == Current(db.truths, req[w].org_id, tr.key)
                      new == Current(db'.truths, req[w].org_id, tr.key)
                  IN /\ Len(after) = Len(before) + 1
                     /\ after[Len(after)].value = tr.value
                     /\ after[Len(after)].version = (IF old = <<>> THEN 0 ELSE old[1].version) + 1
                     /\ new = <<after[Len(after)]>>]_vars

\* An ingest that returned a conflict has committed, and the current value of the
\* key is the value it extracted.
C4_Witness ==
    /\ last.op = "ingest" /\ last.status = "ok"
    /\ Len(last.body.conflicts) = 1
    /\ last.body.conflicts[1].key = "launch_date"
    /\ Current(db.truths, last.org_id, "launch_date")[1].value = last.body.conflicts[1].new_value
    /\ Current(db.truths, last.org_id, "launch_date")[1].value # last.body.conflicts[1].old_value

\* C5: for each truth of an ingest that commits, a ConflictRecord is created if
\* and only if a current value exists for that (org, key) and its trimmed form
\* differs from the trimmed form of the new value: none for the first assertion of
\* a key and none for a re-assertion of the current value.
C5_ConflictIff ==
    [][\A w \in Workers :
          CommitStep(w) =>
              \A n \in 1..Len(extract_truths(req[w].text)) :
                  LET tr == extract_truths(req[w].text)[n]
                      old == Current(db.truths, req[w].org_id, tr.key)
                      before == About(db.conflicts, req[w].org_id, tr.key)
                      after == About(db'.conflicts, req[w].org_id, tr.key)
                  IN Len(after) = Len(before)
                        + (IF old # <<>> /\ Strip(old[1].value) # Strip(tr.value) THEN 1 ELSE 0)]_vars

\* The same launch-day text was ingested twice: versions 1 and 2 of one value,
\* and no conflict.
C5_Witness ==
    LET rows == About(db.truths, 1, "launch_date")
    IN /\ Len(rows) = 2
       /\ rows[1].version = 1 /\ rows[2].version = 2
       /\ rows[1].value = rows[2].value
       /\ db.conflicts = <<>>
       /\ Len(db.ingests) = 2

\* C6: when the ingest that returned last asserted a value v' for a key whose only
\* earlier record holds a different value v, then the key has the versions 1 and
\* 2, exactly one ConflictRecord exists for it, with old value v, new value v' and
\* the question "Which is correct for {key}: '{v}' or '{v'}'?", and the response
\* lists that same conflict once.
C6_OneConflict ==
    (last.op = "ingest" /\ last.status = "ok") =>
        \A n \in 1..Len(last.body.truths_updated) :
            LET tr == last.body.truths_updated[n]
                rows == About(db.truths, last.org_id, tr.key)
                cs == About(db.conflicts, last.org_id, tr.key)
                out == About([i \in 1..Len(last.body.conflicts) |->
                                 [org_id |-> last.org_id, key |-> last.body.conflicts[i].key,
                                  c |-> last.body.conflicts[i]]],
                             last.org_id, tr.key)
                q == <<"Which is correct for ", tr.key, ": '">> \o rows[1].value
                        \o <<"' or '">> \o rows[2].value \o <<"'?">>
            IN (Len(rows) = 2 /\ rows[1].value # rows[2].value) =>
                  /\ rows[1].version = 1 /\ rows[2].version = 2
                  /\ rows[2].value = tr.value
                  /\ Len(cs) = 1
                  /\ cs[1].old_value = rows[1].value
                  /\ cs[1].new_value = rows[2].value
                  /\ cs[1].question = q
                  /\ cs[1].question # <<>>
                  /\ Len(out) = 1
                  /\ out[1].c = [key |-> tr.key, old_value |-> rows[1].value,
                                 new_value |-> rows[2].value, question |-> q]

\* "Launch Friday." then "Launch Monday, ..." were ingested for organisation 1 and
\* the second ingest has just returned its one conflict.
C6_Witness ==
    /\ last.op = "ingest" /\ last.status = "ok" /\ last.org_id = 1
    /\ Len(last.body.conflicts) = 1
    /\ LET rows == About(db.truths, 1, "launch_date")
       IN /\ Len(rows) = 2
          /\ rows[1].value = <<"Friday">>
          /\ rows[2].value = <<"Monday">>

\* C7: an ingest whose text is empty or whitespace-only returns the validation
\* error and persists nothing: the step that returns "Empty text" leaves the
\* committed tables, every connection's transaction, the write lock and every
\* handler's position unchanged, and no transaction and no RawUpdate ever
\* carries a blank text.
C7_EmptyRejected ==
    /\ [](/\ \A w \in Workers : pc[w] # "idle" => ~IsBlank(req[w].raw)
          /\ \A n \in 1..Len(db.ingests) : ~IsBlank(db.ingests[n].text))
    /\ [][(last' # last /\ last'.error = "Empty text") =>
              UNCHANGED <<db, tx, lock, pc, req>>]_vars

\* The validation error was returned while the store holds an earlier ingest.
C7_Witness ==
    /\ last.op = "ingest" /\ last.status = "error" /\ last.error = "Empty text"
    /\ Len(db.ingests) >= 1
    /\ Len(db.risks) >= 1

\* C8: the ledger is append-only.  In every step each committed table keeps all
\* its rows, unchanged and in place (new rows are added at the end only), and a
\* step that returns from org_state or ask changes nothing in the store.
C8_AppendOnly ==
    [][/\ \A tbl \in Tables : IsPrefix(db[tbl], db'[tbl])
       /\ (last' # last /\ last'.op \in {"org_state", "ask"}) =>
              UNCHANGED <<db, tx, lock, pc, req>>]_vars

\* ask answered with a digest after a key of the organisation got a second version.
C8_Witness ==
    /\ last.op = "ask" /\ last.status = "ok"
    /\ Len(About(db.truths, last.org_id, "launch_date")) >= 2
    /\ Len(db.ingests) >= 2

\* The rows of one organisation, in the order they were appended
Mine(rows, org_id) == SelectSeq(rows, LAMBDA r : r.org_id = org_id)

\* C9: org_state returns, for every key with records of the organisation,
\* truth_timeline[key] = all those records from the newest version to the
\* oldest, and latest_truths[key] = the record of the highest version, which is the
\* one appended last; a key without records of the organisation is in neither map.
C9_TimelineNewestFirst ==
    last.op = "org_state" =>
        \A key \in Keys :
            LET rows == About(db.truths, last.org_id, key)
                n == Len(rows)
                timeline == last.body.truth_timeline
                latest == last.body.latest_truths
            IN IF n = 0
               THEN key \notin DOMAIN timeline /\ key \notin DOMAIN latest
               ELSE /\ key \in DOMAIN timeline /\ key \in DOMAIN latest
                    /\ timeline[key] = [i \in 1..n |-> [value |-> rows[n + 1 - i].value,
                                                        version |-> rows[n + 1 - i].version]]
                    /\ \A i \in 1..(n - 1) : timeline[key][i].version > timeline[key][i + 1].version
                    /\ latest[key] = [value |-> rows[n].value, version |-> rows[n].version]
                    /\ \A i \in 1..n : rows[i].version <= latest[key].version

\* org_state answered for an organisation with two versions of launch_date, of
\* different values, and a record of another key; the other organisation has
\* no record of launch_date.
C9_Witness ==
    /\ last.op = "org_state" /\ last.org_id = 1
    /\ "launch_date" \in DOMAIN last.body.truth_timeline
    /\ Len(last.body.truth_timeline["launch_date"]) = 2
    /\ last.body.truth_timeline["launch_date"][1].value
          # last.body.truth_timeline["launch_date"][2].value
    /\ "priority" \in DOMAIN last.body.latest_truths
    /\ About(db.truths, 2, "launch_date") = <<>>

\* C10: org_state returns as latest_tasks exactly the tasks persisted by the most
\* recent ingest of the organisation (newest task first), that is the task
\* drafts of that ingest's text, and no task of an earlier ingest: none at all
\* when that ingest drafted no task.
C10_LatestTasks ==
    last.op = "org_state" =>
        LET ingests == Mine(db.ingests, last.org_id)
            head == ingests[Len(ingests)]
            rows == SelectSeq(Mine(db.tasks, last.org_id), LAMBDA r : r.ingest_id = head.id)
            drafts == extract_tasks(head.text)
            k == Len(rows)
        IN IF ingests = <<>> THEN last.body.latest_tasks = <<>>
           ELSE /\ last.body.latest_tasks =
                      [i \in 1..k |-> [task |-> rows[k + 1 - i].task,
                                       owner |-> rows[k + 1 - i].owner,
                                       status |-> rows[k + 1 - i].status,
                                       deadline |-> rows[k + 1 - i].deadline,
                                       dependency |-> rows[k + 1 - i].dependency]]
                /\ last.body.latest_tasks = [i \in 1..Len(drafts) |-> drafts[Len(drafts) + 1 - i]]
                /\ last.body.history[1].id = head.id

\* org_state answered with no task for an organisation whose most recent ingest
\* drafted none, while an earlier ingest of it persisted two.
C10_Witness ==
    /\ last.op = "org_state"
    /\ last.body.latest_tasks = <<>>
    /\ Len(Mine(db.tasks, last.org_id)) >= 2
    /\ Len(Mine(db.ingests, last.org_id)) >= 2

\* C11: org_state for an organisation without any ingest (other organisations
\* may have ingests) answers without an error, with empty latest_truths and
\* truth_timeline maps, empty conflicts, latest_tasks and history lists, and no
\* latest_risk.
C11_EmptyOrgState ==
    (/\ last.op = "org_state"
     /\ \A i \in 1..Len(db.ingests) : db.ingests[i].org_id # last.org_id)
    => /\ last.status = "ok"
       /\ DOMAIN last.body.latest_truths = {}
       /\ DOMAIN last.body.truth_timeline = {}
       /\ last.body.conflicts = <<>>
       /\ last.body.latest_tasks = <<>>
       /\ last.body.history = <<>>
       /\ last.body.latest_risk = <<>>
       /\ last.body.org_id = last.org_id

\* org_state answered for organisation 2, which has no ingest, while
\* organisation 1 has committed ingests with truths, a conflict and tasks.
C11_Witness ==
    /\ last.op = "org_state" /\ last.org_id = 2 /\ last.status = "ok"
    /\ \A i \in 1..Len(db.ingests) : db.ingests[i].org_id = 1
    /\ Len(db.ingests) >= 2
    /\ db.truths # <<>> /\ db.conflicts # <<>> /\ db.tasks # <<>> /\ db.risks # <<>>
    /\ last.body.history = <<>>


\* C12: whatever the text and the task list, compute_risk returns a score from
\* 15 to 100, and the level is HIGH exactly when the score is at least 70,
\* MEDIUM exactly when it is from 40 to 69, and LOW exactly when it is below 40.
C12_RiskBounds ==
    call.op = "compute_risk" =>
        /\ 15 <= call.out.score /\ call.out.score <= 100
        /\ call.out.level \in {"HIGH", "MEDIUM", "LOW"}
        /\ call.out.level = "HIGH" <=> call.out.score >= 70
        /\ call.out.level = "MEDIUM" <=> (40 <= call.out.score /\ call.out.score < 70)
        /\ call.out.level = "LOW" <=> call.out.score < 40

\* compute_risk returned for a text and tasks that trigger all five rules: the
\* weights add up to 115 and the score returned is 100.
C12_Witness ==
    /\ call.op = "compute_risk"
    /\ Len(call.out.reasons) = 5
    /\ call.out.score = 100
    /\ call.out.level = "HIGH"

\* One if the rule is triggered, else zero
Weight(b, w) == IF b THEN w ELSE 0

\* C13: the score of compute_risk is min(100, 15 + 35 [blocked in the text or a
\* task of status blocked] + 20 [an ambiguity keyword] + 15 [deadline,
\* submission or submit] + 20 [tomorrow, today, eod or end of day] + 10 [tasks
\* present, none with an owner]), the reasons are one string per triggered rule
\* in that order, and a text with blocked, tomorrow and deadline scores at least
\* 85 with level HIGH.
C13_RiskAdditive ==
    call.op = "compute_risk" =>
        LET t == low(call.text)
            Has(w) == \E i \in 1..Len(t) : TokSub(t[i], w)
            Pair(a, b) == \E i \in 1..(Len(t) - 2) :
                             TokSub(t[i], a) /\ t[i + 1] = " " /\ TokSub(t[i + 2], b)
            blocker == Has("blocked")
                       \/ \E i \in 1..Len(call.tasks) : call.tasks[i].status = <<"blocked">>
            ambiguity == Has("unclear") \/ Has("unknown") \/ Pair("not", "sure")
                         \/ Pair("needs", "confirmation")
            deadline == Has("deadline") \/ Has("submission") \/ Has("submit")
            nearterm == Has("tomorrow") \/ Has("today") \/ Has("eod")
                        \/ Contains(t, <<"end", " ", "of", " ", "day">>)
            unowned == /\ Len(call.tasks) > 0
                       /\ \A i \in 1..Len(call.tasks) : call.tasks[i].owner \in {NoneStr, <<>>}
            sum == 15 + Weight(blocker, 35) + Weight(ambiguity, 20) + Weight(deadline, 15)
                      + Weight(nearterm, 20) + Weight(unowned, 10)
            Said(b, reason) == IF b THEN <<reason>> ELSE <<>>
        IN /\ call.out.score = (IF sum > 100 THEN 100 ELSE sum)
           /\ call.out.reasons =
                  Said(blocker, "Blocker / dependency detected")
                  \o Said(ambiguity, "Ambiguity signal (unclear/unknown)")
                  \o Said(deadline, "Deadline / submission mentioned")
                  \o Said(nearterm, "Very near-term deadline (today/tomorrow/EOD)")
                  \o Said(unowned, "Tasks present but owner not identified")
           /\ (Has("blocked") /\ Has("tomorrow") /\ Has("deadline"))
                  => (call.out.score >= 85 /\ call.out.level = "HIGH")

\* compute_risk returned 60 for a text without any keyword and a task list
\* whose one task is blocked and has no owner: the blocker rule triggered by the
\* task alone, and the owner rule.
C13_Witness ==
    /\ call.op = "compute_risk"
    /\ call.text = TxtPlain
    /\ call.out.score = 60
    /\ call.out.reasons = <<"Blocker / dependency detected",
                            "Tasks present but owner not identified">>


\* The elements of a list, each at its first position only
RECURSIVE Dedup(_)
Dedup(l) ==
    IF l = <<>> THEN <<>>
    ELSE LET front == Dedup(SubSeq(l, 1, Len(l) - 1))
             x == l[Len(l)]
         IN IF \E i \in 1..Len(front) : front[i] = x THEN front ELSE Append(front, x)

\* The recipients in the order in which routing_suggestions adds them: the
\* roles of the keywords present, in the order of the keyword table, then
\* Project Manager, then the owners in the order of the tasks
FirstAdded(text, tasks) ==
    LET t == low(text)
        present == SelectSeq(TEAM_KEYWORDS, LAMBDA e : \E i \in 1..Len(t) : TokSub(t[i], e[1]))
        roles == [i \in 1..Len(present) |-> present[i][2]]
        pm == IF \E i \in 1..Len(t) : \E w \in {"launch", "deadline", "submission", "submit"} :
                     TokSub(t[i], w)
              THEN <<ProjectManager>> ELSE <<>>
        owned == SelectSeq(tasks, LAMBDA x : x.owner \notin {NoneStr, <<>>})
        owners == [i \in 1..Len(owned) |-> owned[i].owner]
        added == Dedup(roles \o pm \o owners)
    IN IF added = <<>> THEN <<ProjectManager>> ELSE added

\* C14: the list returned by routing_suggestions has no recipient twice and
\* lists the recipients in the order in which they were first added (roles in
\* keyword-table order, then Project Manager, then task owners in task order).
C14_RoutingOrderPreserved ==
    call.op = "routing_suggestions" =>
        /\ \A i, j \in 1..Len(call.out) : call.out[i] = call.out[j] => i = j
        /\ call.out = FirstAdded(call.text, call.tasks)


\* A team keyword occurs in the text
HasTeamKeyword(text) ==
    \E i \in 1..Len(text), k \in 1..Len(TEAM_KEYWORDS) : TokSub(low(text)[i], TEAM_KEYWORDS[k][1])

\* C15, as stated: the list returned by routing_suggestions is never empty and
\* contains every owner that is not null; without a team keyword and without a
\* task that has an owner it is exactly [Project Manager].
C15_RoutingHasEveryOwner ==
    call.op = "routing_suggestions" =>
        /\ call.out # <<>>
        /\ \A i \in 1..Len(call.tasks) :
              call.tasks[i].owner # NoneStr
                  => \E n \in 1..Len(call.out) : call.out[n] = call.tasks[i].owner
        /\ (/\ ~HasTeamKeyword(call.text)
            /\ \A i \in 1..Len(call.tasks) : call.tasks[i].owner = NoneStr)
               => call.out = <<ProjectManager>>

\* C15, amended: the list returned by routing_suggestions is never empty and
\* contains every owner that is neither null nor the empty string; without a
\* team keyword and without a task that has such an owner it is exactly
\* [Project Manager].
C15_RoutingNeverEmpty ==
    call.op = "routing_suggestions" =>
        /\ call.out # <<>>
        /\ \A i \in 1..Len(call.tasks) :
              (call.tasks[i].owner # NoneStr /\ call.tasks[i].owner # <<>>)
                  => \E n \in 1..Len(call.out) : call.out[n] = call.tasks[i].owner
        /\ (/\ ~HasTeamKeyword(call.text)
            /\ \A i \in 1..Len(call.tasks) : call.tasks[i].owner \in {NoneStr, <<>>})
               => call.out = <<ProjectManager>>

\* routing_suggestions returned [Project Manager] by its default for a text
\* without keywords whose one task has the empty string as its owner.
C15_Witness ==
    /\ call.op = "routing_suggestions"
    /\ call.text = TxtNoOwner
    /\ Len(call.tasks) = 1 /\ call.tasks[1].owner = <<>>
    /\ call.out = <<ProjectManager>>


\* The nodes build_graph tries to add, in the order it tries: the recipients,
\* then every task followed by its dependency if Dep(task) holds one, then the truths
Insertions(c, Dep(_)) ==
    LET RECURSIVE OfTasks(_)
        OfTasks(i) ==
            IF i > Len(c.tasks) THEN <<>>
            ELSE <<[id |-> IF c.tasks[i].task \in {NoneStr, <<>>} THEN <<"Task">>
                           ELSE c.tasks[i].task,
                    type |-> "task"]>>
                 \o (IF Dep(c.tasks[i])
                     THEN <<[id |-> <<"Dependency: ">> \o c.tasks[i].dependency,
                             type |-> "dependency"]>>
                     ELSE <<>>)
                 \o OfTasks(i + 1)
    IN [i \in 1..Len(c.routing) |-> [id |-> c.routing[i], type |-> "person"]]
       \o OfTasks(1)
       \o [i \in 1..Len(c.truths) |->
              [id |-> <<c.truths[i].key, " = ">> \o c.truths[i].value, type |-> "truth"]]

\* The edges of one type
EdgesOfType(g, type) == SelectSeq(g.edges, LAMBDA e : e.type = type)

\* What C16 says of the graph g built from the arguments c, a task having a
\* dependency when Dep(task) holds
GraphShape(c, g, Dep(_)) ==
    LET ins == Insertions(c, Dep)
        First(id) == CHOOSE k \in 1..Len(ins) :
                         ins[k].id = id /\ \A m \in 1..(k - 1) : ins[m].id # id
        tasks == c.tasks
    IN /\ \A i, j \in 1..Len(g.nodes) : g.nodes[i].id = g.nodes[j].id => i = j
       /\ {g.nodes[i].id : i \in 1..Len(g.nodes)} = {ins[k].id : k \in 1..Len(ins)}
       /\ \A i \in 1..Len(g.nodes) : g.nodes[i].type = ins[First(g.nodes[i].id)].type
       /\ Len(EdgesOfType(g, "notified_about")) = Len(c.routing) * Len(tasks)
       /\ Len(EdgesOfType(g, "context")) = Len(c.truths) * Len(tasks)
       /\ Len(EdgesOfType(g, "blocked_by")) = Len(SelectSeq(tasks, Dep))
       /\ Len(g.edges) = Len(c.routing) * Len(tasks) + Len(c.truths) * Len(tasks)
                         + Len(SelectSeq(tasks, Dep))
       /\ \A i \in 1..Len(tasks) :
             LET name == IF tasks[i].task \in {NoneStr, <<>>} THEN <<"Task">> ELSE tasks[i].task
                 same == Cardinality({k \in 1..Len(tasks) : tasks[k].task = tasks[i].task})
                 To(type) == SelectSeq(g.edges, LAMBDA e : e.type = type /\ e.target = name)
             IN /\ Len(To("notified_about")) = Len(c.routing) * same
                /\ Len(To("context")) = Len(c.truths) * same

\* C16, as stated: in the graph of build_graph the node ids are pairwise
\* distinct, a node has the type of its first insertion (people, then tasks and
\* their dependencies, then truths), and the edges are not deduplicated:
\* |routing| x |tasks| notified_about edges, |truths| x |tasks| context edges
\* and one blocked_by edge per task whose dependency is not null.
C16_GraphNonNullDependency ==
    call.op = "build_graph" =>
        GraphShape(call, call.out, LAMBDA task : task.dependency # NoneStr)

\* C16, amended: the same, with one blocked_by edge (and one dependency node
\* insertion) per task whose dependency is neither null nor the empty string.
C16_GraphShape ==
    call.op = "build_graph" =>
        GraphShape(call, call.out, LAMBDA task : task.dependency \notin {NoneStr, <<>>})

\* build_graph returned for two tasks of the same label, one of them with a
\* dependency, a recipient list with a repeated recipient and a recipient named
\* like the tasks, and one truth: a single node of that name, of type person.
C16_Witness ==
    /\ call.op = "build_graph"
    /\ Len(call.tasks) = 2 /\ call.tasks[1].task = call.tasks[2].task
    /\ call.tasks[1].dependency = <<"qa">>
    /\ Len(call.routing) = 3 /\ Len(call.truths) = 1
    /\ Cardinality({i \in 1..Len(call.out.nodes) : call.out.nodes[i].id = call.tasks[1].task}) = 1
    /\ \E i \in 1..Len(call.out.nodes) :
          call.out.nodes[i].id = call.tasks[1].task /\ call.out.nodes[i].type = "person"
    /\ Len(call.out.edges) = 9


\* C17: in every committed state each RawUpdate has exactly one RiskAssessment
\* tagged with its id and organisation, and its Tasks are the task drafts of
\* its text, in order, tagged with its id and organisation; there are as many
\* RiskAssessments as RawUpdates, and every Task and RiskAssessment references
\* an existing RawUpdate of the same organisation.  The id a successful ingest
\* returns is that of one RawUpdate.
C17_OneRiskPerIngest ==
    /\ Len(db.risks) = Len(db.ingests)
    /\ \A i, j \in 1..Len(db.ingests) : db.ingests[i].id = db.ingests[j].id => i = j
    /\ \A i \in 1..Len(db.ingests) :
          LET u == db.ingests[i]
              risks == SelectSeq(db.risks, LAMBDA r : r.ingest_id = u.id)
              tasks == SelectSeq(db.tasks, LAMBDA t : t.ingest_id = u.id)
              drafts == TasksOf[u.text]
          IN /\ Len(risks) = 1 /\ risks[1].org_id = u.org_id
             /\ risks[1].score = RiskOf[u.text].score
             /\ Len(tasks) = Len(drafts)
             /\ \A k \in 1..Len(tasks) :
                   /\ tasks[k].org_id = u.org_id
                   /\ tasks[k].task = drafts[k].task /\ tasks[k].owner = drafts[k].owner
    /\ \A k \in 1..Len(db.tasks) :
          \E i \in 1..Len(db.ingests) :
              db.ingests[i].id = db.tasks[k].ingest_id /\ db.ingests[i].org_id = db.tasks[k].org_id
    /\ \A k \in 1..Len(db.risks) :
          \E i \in 1..Len(db.ingests) :
              db.ingests[i].id = db.risks[k].ingest_id /\ db.ingests[i].org_id = db.risks[k].org_id
    /\ (last.op = "ingest" /\ last.status = "ok")
          => Cardinality({i \in 1..Len(db.ingests) :
                             /\ db.ingests[i].id = last.body.ingest_id
                             /\ db.ingests[i].org_id = last.org_id}) = 1

\* Three ingests are committed, of two organisations: one persisted two tasks,
\* one a single task and one none; the last one has just returned.
C17_Witness ==
    /\ Len(db.ingests) = 3 /\ Len(db.risks) = 3 /\ Len(db.tasks) = 3
    /\ {db.ingests[i].org_id : i \in 1..3} = {1, 2}
    /\ db.ingests[2].text = Strip(TxtMonday)
    /\ db.ingests[3].text = Strip(TxtPriority)
    /\ last.op = "ingest" /\ last.status = "ok" /\ last.body.ingest_id = 3


\* The labels of the blocker, launch and submission rules, in rule order
RuleLabels ==
    << <<"Resolve blocker / dependency">>, <<"Launch readiness">>,
       <<"Prepare submission / deliverable">> >>

RuleOf(label) == CHOOSE n \in 1..Len(RuleLabels) : RuleLabels[n] = label

\* C18: extract_tasks returns the drafts of the blocker, launch and submission
\* rules in that order, then the "Owned item" task if there is one, then the
\* named-actor tasks.  An owner phrase sets the owner of the last draft of the
\* three rules (also over a Project Manager set by the launch rule) and leaves
\* every other task as its rule made it, the named-actor tasks included; with
\* no draft of the three rules it makes exactly one "Owned item" task with that
\* owner.  Without an owner phrase there is no "Owned item" task.
C18_OwnerAttachment ==
    call.op = "extract_tasks" =>
        LET out == call.out
            t == low(call.text)
            ruled == SelectSeq(out, LAMBDA x : \E n \in 1..Len(RuleLabels) : RuleLabels[n] = x.task)
            items == SelectSeq(out, LAMBDA x : x.task = <<"Owned item">>)
            actors == ActorTasks(call.text, 1, DeadlineSlot(t))
            hits == {i \in 1..Len(call.text) : OwnerGroupAt(call.text, i) # NoneStr}
            name == normalize_person_name(
                        OwnerGroupAt(call.text, CHOOSE i \in hits : \A k \in hits : i <= k))
            manager == \/ \E i \in 1..Len(t) : TokSub(t[i], "pm")
                       \/ Contains(t, <<"project", " ", "manager">>)
            RuleOwner(x) == IF x.task = RuleLabels[2] /\ manager THEN ProjectManager ELSE NoneStr
        IN /\ out = ruled \o items \o actors
           /\ \A i, j \in 1..Len(ruled) : i < j => RuleOf(ruled[i].task) < RuleOf(ruled[j].task)
           /\ \A i \in 1..Len(actors) : out[Len(ruled) + Len(items) + i].owner = actors[i].owner
           /\ IF hits = {}
              THEN /\ items = <<>>
                   /\ \A i \in 1..Len(ruled) : ruled[i].owner = RuleOwner(ruled[i])
              ELSE IF ruled = <<>>
              THEN Len(items) = 1 /\ items[1].owner = name
              ELSE /\ items = <<>>
                   /\ ruled[Len(ruled)].owner = name
                   /\ \A i \in 1..(Len(ruled) - 1) : ruled[i].owner = RuleOwner(ruled[i])

\* extract_tasks returned for a text that triggers the three rules, has an
\* owner phrase and a named actor: four tasks, the owner of the phrase on the
\* submission task and the actor on the task drafted last.
C18_Witness ==
    /\ call.op = "extract_tasks"
    /\ call.text = TxtAll
    /\ Len(call.out) = 4
    /\ call.out[1].owner = NoneStr /\ call.out[2].owner = NoneStr
    /\ call.out[3].task = RuleLabels[3] /\ call.out[3].owner = <<"Sana">>
    /\ call.out[4].task = <<"Handle", " ", "task">> /\ call.out[4].owner = <<"Ali">>


\* str.split("\n")
RECURSIVE SplitLines(_)
SplitLines(s) ==
    LET breaks == {i \in 1..Len(s) : s[i] = "\n"}
        k == CHOOSE i \in breaks : \A j \in breaks : i <= j
    IN IF breaks = {} THEN <<s>>
       ELSE <<SubSeq(s, 1, k - 1)>> \o SplitLines(SubSeq(s, k + 1, Len(s)))

\* C19: the briefing of executive_briefing starts with the title, has the
\* Situation, Risk Level and Notify sections once each, has the Truth Updates,
\* Action Items and Conflicts Needing Confirmation sections exactly when the
\* truths, tasks and conflicts are not empty, and has its sections in that
\* order; the Notify section ends the briefing and lists the recipients in the
\* order given, or the one line Project Manager when there is none.
C19_BriefingSections ==
    call.op = "executive_briefing" =>
        LET lines == SplitLines(call.out)
            At(h) == {i \in 1..Len(lines) : lines[i] = <<h>>}
            risk == {i \in 1..Len(lines) : lines[i] # <<>> /\ lines[i][1] = "Risk Level: "}
            Once(S) == Cardinality(S) = 1
            Pos(S) == CHOOSE i \in S : TRUE
            Before(S, T) == \A i \in S, j \in T : i < j
            truths == At("Truth Updates:")
            items == At("Action Items:")
            confl == At("Conflicts Needing Confirmation:")
            notify == At("Notify:")
            n == Len(call.routing)
        IN /\ lines[1] = <<"Chief of Staff Briefing">>
           /\ Once(At("Chief of Staff Briefing"))
           /\ Once(At("Situation:")) /\ Once(risk) /\ Once(notify)
           /\ lines[Pos(At("Situation:")) + 1] = <<"- ">> \o call.text
           /\ Len(lines[Pos(risk)]) = 2
           /\ (IF call.truths = <<>> THEN truths = {} ELSE Once(truths))
           /\ (IF call.tasks = <<>> THEN items = {} ELSE Once(items))
           /\ (IF call.conflicts = <<>> THEN confl = {} ELSE Once(confl))
           /\ Before(At("Chief of Staff Briefing"), At("Situation:"))
           /\ Before(At("Situation:"), risk)
           /\ Before(risk, truths) /\ Before(risk, items) /\ Before(risk, confl)
           /\ Before(truths, items) /\ Before(truths, confl) /\ Before(items, confl)
           /\ Before(truths, notify) /\ Before(items, notify) /\ Before(confl, notify)
           /\ Before(risk, notify)
           /\ SubSeq(lines, Pos(notify) + 1, Len(lines)) =
                  (IF n = 0 THEN << <<"- ", "Project", " ", "Manager">> >>
                   ELSE [i \in 1..n |-> <<"- ">> \o call.routing[i]])

\* executive_briefing returned for a task, two conflicts, no truth and no
\* recipient: Action Items and Conflicts Needing Confirmation are in the
\* briefing, Truth Updates is not, and Notify has the default line.
C19_Witness ==
    /\ call.op = "executive_briefing"
    /\ call.truths = <<>> /\ Len(call.tasks) = 1 /\ Len(call.conflicts) = 2
    /\ call.routing = <<>>
    /\ \E i \in 1..Len(call.out) : call.out[i] = "Action Items:"
    /\ \E i \in 1..Len(call.out) : call.out[i] = "Conflicts Needing Confirmation:"
    /\ \A i \in 1..Len(call.out) : call.out[i] # "Truth Updates:"
    /\ SubSeq(call.out, Len(call.out) - 5, Len(call.out))
          = <<"Notify:", "\n", "- ", "Project", " ", "Manager">>


\* C20: for every organisation and key, the committed versions of the key are
\* numbered 1, 2, ... in the order they were appended, there are as many
\* conflict rows as consecutive versions (k, k+1) whose values differ, and the
\* n-th conflict row has the value of version k as its old value and the value
\* of version k+1 as its new value, for the n-th such pair.
C20_ConflictPerChange ==
    \A org_id \in Orgs, key \in Keys :
        LET rows == About(db.truths, org_id, key)
            cs == About(db.conflicts, org_id, key)
            changes == {k \in 1..(Len(rows) - 1) : rows[k].value # rows[k + 1].value}
            Nth(n) == CHOOSE k \in changes : Cardinality({j \in changes : j < k}) = n - 1
        IN /\ \A k \in 1..Len(rows) : rows[k].version = k
           /\ Len(cs) = Cardinality(changes)
           /\ \A n \in 1..Len(cs) :
                 /\ cs[n].old_value = rows[Nth(n)].value
                 /\ cs[n].new_value = rows[Nth(n) + 1].value

\* Organisation 1 has three committed versions of launch_date, Friday, Friday
\* and Monday: the re-asserted Friday left no conflict row and the change to
\* Monday left one.
C20_Witness ==
    LET rows == About(db.truths, 1, "launch_date")
        cs == About(db.conflicts, 1, "launch_date")
    IN /\ Len(rows) = 3
       /\ rows[1].value = <<"Friday">> /\ rows[2].value = <<"Friday">>
       /\ rows[3].value = <<"Monday">>
       /\ Len(cs) = 1
       /\ cs[1].old_value = <<"Friday">> /\ cs[1].new_value = <<"Monday">>


\* C21: organisations are isolated. A step changes what org_state returns for
\* an organisation only if it is the commit of an ingest for that organisation;
\* and when an ingest for organisation A handles a truth of a key, the conflict
\* it detects and the version it appends are those given by the earlier
\* versions of that key in A alone: a conflict exactly when there is an earlier
\* version and the value of the last one differs from the new value, and the
\* version one more than the number of earlier versions.
C21_OrgsIsolated ==
    [][/\ \A B \in Orgs :
             (db' # db /\ org_state(db', B) # org_state(db, B)) =>
                 \E w \in Workers : CommitStep(w) /\ req[w].org_id = B
       /\ \A w \in Workers :
             LET A == req[w].org_id
                 tr == TruthsOf[req[w].text][req[w].i]
                 earlier == About(View(w).truths, A, tr.key)
                 n == Len(earlier)
                 added == tx'[w].truths[Len(tx'[w].truths)]
             IN /\ (pc[w] = "read" /\ pc'[w] \in {"conflict", "append"}) =>
                       /\ (pc'[w] = "conflict") = (n > 0 /\ earlier[n].value # tr.value)
                       /\ req'[w].old_ver = n
                /\ (pc[w] = "append" /\ Len(tx'[w].truths) = Len(tx[w].truths) + 1) =>
                      /\ added.org_id = A /\ added.key = tr.key
                      /\ added.version = n + 1
      ]_vars

\* Organisation 1 recorded Friday, then organisation 2 recorded Monday, then
\* organisation 1 recorded Friday again: organisation 1 has versions 1 and 2 of
\* launch_date and no conflict, although the launch_date recorded last before
\* its second ingest was the Monday of organisation 2, which keeps version 1
\* and its own conflict-free state.
C21_Witness ==
    /\ Len(db.truths) = 3
    /\ db.truths[1].org_id = 1 /\ db.truths[1].value = <<"Friday">>
    /\ db.truths[2].org_id = 2 /\ db.truths[2].value = <<"Monday">>
    /\ db.truths[2].version = 1
    /\ db.truths[3].org_id = 1 /\ db.truths[3].value = <<"Friday">>
    /\ db.truths[3].version = 2
    /\ db.conflicts = <<>>
    /\ Len(org_state(db, 2).history) = 1
    /\ Len(org_state(db, 1).history) = 2


\* C22: an org_state response is consistent in itself: with an empty history it
\* has no risk and no tasks; otherwise its latest_risk is the risk row and
\* its latest_tasks are the task rows of the ingest at the head of its history;
\* and for every key, each version created by an ingest listed in its history
\* is in its truth_timeline.
C22_StateConsistent ==
    (last.op = "org_state" /\ last.status = "ok") =>
        LET b == last.body
            head == b.history[1].id
            risk == OfIngest(db.risks, head)
            tasks == Reverse(OfIngest(db.tasks, head))
            HasKey(text, key) ==
                \E n \in 1..Len(TruthsOf[text]) : TruthsOf[text][n].key = key
            Listed(key) == {i \in 1..Len(b.history) : HasKey(b.history[i].text, key)}
            Versions(key) ==
                IF key \in DOMAIN b.truth_timeline
                THEN {b.truth_timeline[key][i].version : i \in 1..Len(b.truth_timeline[key])}
                ELSE {}
        IN /\ IF b.history = <<>>
              THEN b.latest_risk = <<>> /\ b.latest_tasks = <<>>
              ELSE /\ b.latest_risk =
                         [i \in 1..Len(risk) |->
                             [score |-> risk[i].score, level |-> risk[i].level,
                              reasons |-> risk[i].reasons]]
                   /\ b.latest_tasks =
                         [i \in 1..Len(tasks) |->
                             [task |-> tasks[i].task, owner |-> tasks[i].owner,
                              status |-> tasks[i].status, deadline |-> tasks[i].deadline,
                              dependency |-> tasks[i].dependency]]
           /\ \A key \in Keys : 1..Cardinality(Listed(key)) \subseteq Versions(key)

====
